---- MODULE Spec2Model ----
(***************************************************************************)
(* A model of the polygon-background particle simulation (src/wasm/src).   *)
(*                                                                         *)
(* Numbers.  Every f32 of the program is a fixed-point integer counting    *)
(* hundredths (ONE = 1.00), rounded to nearest after each multiplication,  *)
(* division and square root, as f32 rounds each operation to nearest.  One *)
(* extra value, NaN, stands for the IEEE not-a-number: every arithmetic    *)
(* operation propagates it and every ordered comparison with it is false.  *)
(* Infinities are not represented; the inputs are kept small enough that   *)
(* no f32 operation of the program would overflow on them.                 *)
(***************************************************************************)
EXTENDS Integers, Sequences, FiniteSets, TLC

VARIABLES
    sim,          \* the Simulation object (simulation.rs:93-128), a record of its fields
    ret,          \* the last call and the value it returned
    frames,       \* history: number of update_points calls so far
    triggers,     \* history: number of trigger_shockwave calls so far
    moves,        \* history: number of set_mouse_state calls so far
    integrated,   \* history: the particles right after the integration loop of the
                  \* last update_points (simulation.rs:403-425), before the force kernels
    grid,         \* a SpatialGrid object (spatial_grid.rs:4-17)
    placed,       \* history: the position each index was inserted at into grid
    reconfigured  \* history: number of resize, set_point_count and set_noise_params
                  \* calls so far

vars == <<sim, ret, frames, triggers, moves, integrated, grid, placed, reconfigured>>

-----------------------------------------------------------------------------
(* f32 arithmetic *)

ONE == 10 * 10
NaN == 0 - 2000000000

Abs(n) == IF n < 0 THEN 0 - n ELSE n

F(units) == units * ONE

FAdd(a, b) == IF a = NaN \/ b = NaN THEN NaN ELSE a + b
FSub(a, b) == IF a = NaN \/ b = NaN THEN NaN ELSE a - b
FNeg(a) == IF a = NaN THEN NaN ELSE 0 - a

\* a * b, rounded to nearest; the product is split so that it fits 32 bits
FMul(a, b) ==
    IF a = NaN \/ b = NaN THEN NaN
    ELSE LET m == Abs(a)
             n == Abs(b)
             mag == (m \div ONE) * n + (((m % ONE) * n + ONE \div 2) \div ONE)
         IN  IF (a < 0) # (b < 0) THEN 0 - mag ELSE mag

\* a / b, rounded to nearest.  0/0 is NaN; x/0 for x # 0 (an infinity) is never
\* computed by the modelled code on the inputs used and is folded to NaN.
FDiv(a, b) ==
    IF a = NaN \/ b = NaN \/ b = 0 THEN NaN
    ELSE LET mag == (Abs(a) * ONE + Abs(b) \div 2) \div Abs(b)
         IN  IF (a < 0) # (b < 0) THEN 0 - mag ELSE mag

\* r*r + extra <= a*ONE, computed without forming the 64-bit product
SqLe(r, extra, a) ==
    LET rh == r \div ONE
        rl == r % ONE
        q  == ONE * rh * rh + 2 * rh * rl + (rl * rl) \div ONE
        rm == (rl * rl) % ONE
    IN  q + (rm + extra + ONE - 1) \div ONE <= a

RECURSIVE SqrtSearch(_, _, _)
\* the largest r in lo..hi with r*r <= a*ONE
SqrtSearch(a, lo, hi) ==
    IF lo >= hi THEN lo
    ELSE LET mid == (lo + hi + 1) \div 2
         IN  IF SqLe(mid, 0, a) THEN SqrtSearch(a, mid, hi)
             ELSE SqrtSearch(a, lo, mid - 1)

\* sqrt(a), rounded to nearest; NaN for a negative or NaN argument
FSqrt(a) ==
    IF a = NaN \/ a < 0 THEN NaN
    ELSE LET r == SqrtSearch(a, 0, IF a < ONE THEN ONE ELSE IF a < 463400 THEN a ELSE 463400)
         IN  IF SqLe(r, r + 1, a) THEN r + 1 ELSE r

FLt(a, b) == a # NaN /\ b # NaN /\ a < b
FGt(a, b) == a # NaN /\ b # NaN /\ a > b
FLe(a, b) == a # NaN /\ b # NaN /\ a <= b
FGe(a, b) == a # NaN /\ b # NaN /\ a >= b
FEq(a, b) == a # NaN /\ b # NaN /\ a = b

\* f32::max / f32::min: a NaN operand is ignored
FMax(a, b) == IF a = NaN THEN b ELSE IF b = NaN THEN a ELSE IF a > b THEN a ELSE b
FMin(a, b) == IF a = NaN THEN b ELSE IF b = NaN THEN a ELSE IF a < b THEN a ELSE b

\* f32::clamp: a NaN stays NaN
FClamp(a, lo, hi) ==
    IF a = NaN THEN NaN ELSE IF a < lo THEN lo ELSE IF a > hi THEN hi ELSE a

FAbs(a) == IF a = NaN THEN NaN ELSE Abs(a)

-----------------------------------------------------------------------------
(* Constants of the program, in hundredths *)

GHOST_THRESHOLD == 15
MAX_SHOCKWAVES == 10
DEFAULT_SPRING_BACK == 6
DEFAULT_DAMPING == 92
DEFAULT_VELOCITY_INFLUENCE == 30
SHOCKWAVE_DECAY == 96
SHOCKWAVE_WAVE_WIDTH == 6000
SHOCKWAVE_SPEED == 1200
GRAVITY_WELL_MIN_DIST == 2000
GRAVITY_WELL_ATTRACT_STRENGTH == 300
GRAVITY_WELL_REPEL_STRENGTH == -500
GRAVITY_WELL_MAX_RANGE == 100000
MIN_DIST_SQ == 100
MIN_POINT_COUNT == 3
MAX_POINT_COUNT == 10000

\* noise_scale alone is kept in ten-thousandths: its range [0.0001, 1] and its
\* default 0.003 lie below the resolution of ONE
DEFAULT_NOISE_SCALE == 30
DEFAULT_HEIGHT_INTENSITY == 60

-----------------------------------------------------------------------------
(* Rng: xorshift32 on a 32-bit word, kept as its two 16-bit halves <<hi, lo>> *)

HALF == 2 ^ 16

RECURSIVE Xor16(_, _, _)
\* bitwise exclusive or of the low k bits of a and b
Xor16(a, b, k) ==
    IF k = 0 THEN 0
    ELSE (((a % 2) + (b % 2)) % 2) + 2 * Xor16(a \div 2, b \div 2, k - 1)

Xor32(v, w) == <<Xor16(v[1], w[1], 16), Xor16(v[2], w[2], 16)>>

\* x << k for 0 < k < 16, and x >> 17, on 32 bits
Shl32(v, k) ==
    LET p == 2 ^ k
    IN  <<(v[1] * p + v[2] \div (HALF \div p)) % HALF, (v[2] * p) % HALF>>
Shr17(v) == <<0, v[1] \div 2>>

\* seeds are below 2^31 in the model
Rng_new(seed) ==
    LET st == IF seed = 0 THEN 1 ELSE seed
    IN  <<st \div HALF, st % HALF>>

Rng_next(state) ==
    LET x1 == Xor32(state, Shl32(state, 13))
        x2 == Xor32(x1, Shr17(x1))
    IN  Xor32(x2, Shl32(x2, 5))

\* (x as f32) / (u32::MAX as f32): u32::MAX as f32 is 2^32, so the quotient is
\* x / 2^32 and reaches 1.0 when x rounds up to 2^32
Rng_f32(x) ==
    LET t == x[1] * ONE + (x[2] * ONE) \div HALF
    IN  (t + HALF \div 2) \div HALF

-----------------------------------------------------------------------------
(* Static height *)

\* noise.rs fbm3d is outside the model: it is replaced by a fixed function of
\* the sample position with the same contract, a deterministic value in [-1, 1]
fbm3d(nx, ny) ==
    IF nx = NaN \/ ny = NaN THEN NaN
    ELSE ((nx \div 7 + ny \div 13) % (2 * ONE + 1)) - ONE

calculate_static_height(x, y, width, height, noise_scale, intensity) ==
    LET cx == FDiv(width, F(2))
        cy == FDiv(height, F(2))
        max_dist == FSqrt(FAdd(FMul(cx, cx), FMul(cy, cy)))
        n  == fbm3d(IF x = NaN THEN NaN ELSE x * noise_scale,
                    IF y = NaN THEN NaN ELSE y * noise_scale)
        z1 == FDiv(FAdd(n, ONE), F(2))
        dx == FSub(x, cx)
        dy == FSub(y, cy)
        dist == FSqrt(FAdd(FMul(dx, dx), FMul(dy, dy)))
        falloff == FSub(ONE, FMul(FDiv(dist, max_dist), 30))
    IN  FMul(FMul(z1, falloff), intensity)

-----------------------------------------------------------------------------
(* Construction *)

\* mutant of validate_point_count: the lower clamp is missing
validate_point_count_no_min(count) ==
    IF count > MAX_POINT_COUNT THEN MAX_POINT_COUNT ELSE count

validate_point_count(count) ==
    IF count < MIN_POINT_COUNT THEN MIN_POINT_COUNT
    ELSE IF count > MAX_POINT_COUNT THEN MAX_POINT_COUNT ELSE count

validate_dimensions(value) == FMin(FMax(value, F(1)), F(100000))

\* one particle drawn from the generator: [point, rng]
new_point(rng, width, height, noise_scale, height_intensity) ==
    LET r1 == Rng_next(rng)
        r2 == Rng_next(r1)
        r3 == Rng_next(r2)
        r4 == Rng_next(r3)
        x  == FMul(Rng_f32(r1), width)
        y  == FMul(Rng_f32(r2), height)
        vx == FMul(FMul(FSub(Rng_f32(r3), 50), 50), F(2))
        vy == FMul(FMul(FSub(Rng_f32(r4), 50), 50), F(2))
        z  == calculate_static_height(x, y, width, height, noise_scale, height_intensity)
    IN  [point |-> [x |-> x, y |-> y, z |-> z, base_x |-> x, base_y |-> y,
                    vx |-> vx, vy |-> vy, dx |-> 0, dy |-> 0],
         rng |-> r4]

RECURSIVE fresh_points(_, _, _, _, _, _)
\* n particles drawn one after the other from the generator: [points, rng].
\* The run of n draws is cut into two shorter runs, the second starting from
\* the generator state the first one ends in.
fresh_points(rng, n, width, height, noise_scale, height_intensity) ==
    IF n <= 0 THEN [points |-> <<>>, rng |-> rng]
    ELSE IF n = 1
    THEN LET np == new_point(rng, width, height, noise_scale, height_intensity)
         IN  [points |-> <<np.point>>, rng |-> np.rng]
    ELSE LET a == fresh_points(rng, n \div 2, width, height, noise_scale, height_intensity)
             b == fresh_points(a.rng, n - n \div 2, width, height, noise_scale,
                               height_intensity)
         IN  [points |-> a.points \o b.points, rng |-> b.rng]

\* push fresh particles until there are count of them: [points, rng]
grow_points(points, rng, count, width, height, noise_scale, height_intensity) ==
    [fresh_points(rng, count - Len(points), width, height, noise_scale,
                  height_intensity) EXCEPT !.points = points \o @]

\* the object `new` returns, for the particles and generator state g its loop
\* has produced
Simulation_fields(g, width, height) ==
        [points |-> g.points,
         width |-> width,
         height |-> height,
         rng |-> g.rng,
         triangle_vertices |-> <<>>,
         stroke_vertices |-> <<>>,
         point_vertices |-> <<>>,
         noise_scale |-> DEFAULT_NOISE_SCALE,
         height_intensity |-> DEFAULT_HEIGHT_INTENSITY,
         mouse_x |-> 0,
         mouse_y |-> 0,
         prev_mouse_x |-> 0,
         prev_mouse_y |-> 0,
         mouse_vx |-> 0,
         mouse_vy |-> 0,
         mouse_in_canvas |-> FALSE,
         mouse_radius |-> F(150),
         mouse_strength |-> F(80),
         mouse_mode |-> "Push",
         spring_back |-> DEFAULT_SPRING_BACK,
         damping |-> DEFAULT_DAMPING,
         velocity_influence |-> DEFAULT_VELOCITY_INFLUENCE,
         shockwaves |-> <<>>,
         gravity_well |-> <<>>]

Simulation_new(width_in, height_in, point_count_in, seed) ==
    LET width == validate_dimensions(width_in)
        height == validate_dimensions(height_in)
        point_count == validate_point_count(point_count_in)
    IN  Simulation_fields(grow_points(<<>>, Rng_new(seed), point_count, width, height,
                                      DEFAULT_NOISE_SCALE, DEFAULT_HEIGHT_INTENSITY),
                          width, height)

-----------------------------------------------------------------------------
(* Effects *)

\* seq and born are history fields no operation reads: the serial number of the
\* trigger_shockwave call that made the wave and the frame count at that call
Shockwave_new(x, y, strength, seq, born) ==
    [x |-> x, y |-> y, radius |-> 0, strength |-> FClamp(strength, 0, F(500)),
     speed |-> SHOCKWAVE_SPEED, seq |-> seq, born |-> born]

\* mutants of trigger_shockwave: no eviction at capacity; eviction of the newest
trigger_shockwave_no_evict(s, x, y, strength, seq, born) ==
    [s EXCEPT !.shockwaves = Append(s.shockwaves, Shockwave_new(x, y, strength, seq, born))]

trigger_shockwave_evict_newest(s, x, y, strength, seq, born) ==
    LET kept == IF Len(s.shockwaves) >= MAX_SHOCKWAVES
                THEN SubSeq(s.shockwaves, 1, Len(s.shockwaves) - 1) ELSE s.shockwaves
    IN  [s EXCEPT !.shockwaves = Append(kept, Shockwave_new(x, y, strength, seq, born))]

trigger_shockwave(s, x, y, strength, seq, born) ==
    LET kept == IF Len(s.shockwaves) >= MAX_SHOCKWAVES
                THEN Tail(s.shockwaves) ELSE s.shockwaves
    IN  [s EXCEPT !.shockwaves = Append(kept, Shockwave_new(x, y, strength, seq, born))]

\* mutant of Shockwave_update: a slower decay (0.97)
Shockwave_update_slow_decay(w) ==
    [w EXCEPT !.radius = FAdd(w.radius, w.speed),
              !.strength = FMul(w.strength, 97)]

Shockwave_update(w) ==
    [w EXCEPT !.radius = FAdd(w.radius, w.speed),
              !.strength = FMul(w.strength, SHOCKWAVE_DECAY)]

Shockwave_is_active(w) == FGt(w.strength, 50)

update_shockwaves(s) ==
    LET ticked == [i \in 1..Len(s.shockwaves) |-> Shockwave_update(s.shockwaves[i])]
    IN  [s EXCEPT !.shockwaves = SelectSeq(ticked, Shockwave_is_active)]

set_gravity_well(s, x, y, active, attract) ==
    IF active
    THEN [s EXCEPT !.gravity_well =
              <<[x |-> x, y |-> y,
                 strength |-> IF attract THEN GRAVITY_WELL_ATTRACT_STRENGTH
                              ELSE GRAVITY_WELL_REPEL_STRENGTH]>>]
    ELSE [s EXCEPT !.gravity_well = <<>>]

\* mutant of update_gravity_well_position: a well is created when there is none
update_gravity_well_position_creates(s, x, y) ==
    IF s.gravity_well # <<>>
    THEN [s EXCEPT !.gravity_well = <<[s.gravity_well[1] EXCEPT !.x = x, !.y = y]>>]
    ELSE [s EXCEPT !.gravity_well =
              <<[x |-> x, y |-> y, strength |-> GRAVITY_WELL_ATTRACT_STRENGTH]>>]

update_gravity_well_position(s, x, y) ==
    IF s.gravity_well # <<>>
    THEN [s EXCEPT !.gravity_well = <<[s.gravity_well[1] EXCEPT !.x = x, !.y = y]>>]
    ELSE s

\* mutant of MouseMode_from_u32: unrecognised codes become Swirl
MouseMode_from_u32_default_swirl(mode) ==
    IF mode = 1 THEN "Pull" ELSE IF mode = 0 THEN "Push" ELSE "Swirl"

MouseMode_from_u32(mode) ==
    IF mode = 1 THEN "Pull" ELSE IF mode = 2 THEN "Swirl" ELSE "Push"

\* mutant of set_mouse_state: the previous position is recorded only while
\* the pointer is in bounds
set_mouse_state_prev_in_canvas_only(s, x, y, in_canvas, radius, strength, mode) ==
    LET prev_x == IF in_canvas THEN s.mouse_x ELSE s.prev_mouse_x
        prev_y == IF in_canvas THEN s.mouse_y ELSE s.prev_mouse_y
        new_vx == FSub(x, prev_x)
        new_vy == FSub(y, prev_y)
    IN  [s EXCEPT !.prev_mouse_x = prev_x,
                  !.prev_mouse_y = prev_y,
                  !.mouse_x = x,
                  !.mouse_y = y,
                  !.mouse_in_canvas = in_canvas,
                  !.mouse_radius = radius,
                  !.mouse_strength = strength,
                  !.mouse_vx = IF in_canvas
                               THEN FAdd(FMul(new_vx, 40), FMul(s.mouse_vx, 60))
                               ELSE FMul(s.mouse_vx, 90),
                  !.mouse_vy = IF in_canvas
                               THEN FAdd(FMul(new_vy, 40), FMul(s.mouse_vy, 60))
                               ELSE FMul(s.mouse_vy, 90),
                  !.mouse_mode = MouseMode_from_u32(mode)]

set_mouse_state(s, x, y, in_canvas, radius, strength, mode) ==
    LET prev_x == s.mouse_x
        prev_y == s.mouse_y
        new_vx == FSub(x, prev_x)
        new_vy == FSub(y, prev_y)
    IN  [s EXCEPT !.prev_mouse_x = prev_x,
                  !.prev_mouse_y = prev_y,
                  !.mouse_x = x,
                  !.mouse_y = y,
                  !.mouse_in_canvas = in_canvas,
                  !.mouse_radius = radius,
                  !.mouse_strength = strength,
                  !.mouse_vx = IF in_canvas
                               THEN FAdd(FMul(new_vx, 40), FMul(s.mouse_vx, 60))
                               ELSE FMul(s.mouse_vx, 90),
                  !.mouse_vy = IF in_canvas
                               THEN FAdd(FMul(new_vy, 40), FMul(s.mouse_vy, 60))
                               ELSE FMul(s.mouse_vy, 90),
                  !.mouse_mode = MouseMode_from_u32(mode)]

set_physics_params(s, spring_back, damping, velocity_influence) ==
    [s EXCEPT !.spring_back = spring_back,
              !.damping = damping,
              !.velocity_influence = velocity_influence]

-----------------------------------------------------------------------------
(* One particle's step *)

\* drift of the rest position and the single wrap per axis
Point_update_position(p, delta_time, speed, width, height) ==
    LET bx1 == FAdd(p.base_x, FMul(FMul(p.vx, speed), delta_time))
        by1 == FAdd(p.base_y, FMul(FMul(p.vy, speed), delta_time))
        bx2 == IF FLt(bx1, 0) THEN FAdd(bx1, width) ELSE bx1
        bx3 == IF FGt(bx2, width) THEN FSub(bx2, width) ELSE bx2
        by2 == IF FLt(by1, 0) THEN FAdd(by1, height) ELSE by1
        by3 == IF FGt(by2, height) THEN FSub(by2, height) ELSE by2
    IN  [p EXCEPT !.base_x = bx3, !.base_y = by3]

\* spring toward the rest position, damping, then the rendered position
Point_apply_spring(p, spring_back, damping) ==
    LET dx1 == FAdd(p.dx, FMul(FSub(0, FSub(p.x, p.base_x)), spring_back))
        dy1 == FAdd(p.dy, FMul(FSub(0, FSub(p.y, p.base_y)), spring_back))
        dx2 == FMul(dx1, damping)
        dy2 == FMul(dy1, damping)
    IN  [p EXCEPT !.dx = dx2, !.dy = dy2,
                  !.x = FAdd(p.base_x, dx2), !.y = FAdd(p.base_y, dy2)]

\* the loop body of update_points
integrate_point(p, delta_time, speed, width, height, spring_back, damping) ==
    Point_apply_spring(Point_update_position(p, delta_time, speed, width, height),
                       spring_back, damping)

integrate_points(s, delta_time, speed) ==
    [i \in 1..Len(s.points) |->
        integrate_point(s.points[i], delta_time, speed, s.width, s.height,
                        s.spring_back, s.damping)]

-----------------------------------------------------------------------------
(* Force kernels of Simulation: loops over every particle *)

mouse_force_on(p, s) ==
    LET mx == s.mouse_x
        my == s.mouse_y
        radius == s.mouse_radius
        radius_sq == FMul(radius, radius)
        mouse_speed == FSqrt(FAdd(FMul(s.mouse_vx, s.mouse_vx),
                                  FMul(s.mouse_vy, s.mouse_vy)))
        velocity_boost == FAdd(ONE, FMul(mouse_speed, s.velocity_influence))
        dx == FSub(p.x, mx)
        dy == FSub(p.y, my)
        dist_sq == FAdd(FMul(dx, dx), FMul(dy, dy))
    IN  IF FGe(dist_sq, radius_sq) \/ FLt(dist_sq, MIN_DIST_SQ) THEN p
        ELSE LET dist == FSqrt(dist_sq)
                 t == FSub(ONE, FDiv(dist, radius))
                 falloff == FMul(FMul(t, t), FSub(F(3), FMul(F(2), t)))
                 push == FMul(FMul(FMul(s.mouse_strength, falloff), velocity_boost), 8)
                 inv_dist == FDiv(ONE, dist)
                 nx == FMul(dx, inv_dist)
                 ny == FMul(dy, inv_dist)
                 tangent_x == FMul(FNeg(dy), inv_dist)
                 tangent_y == FMul(dx, inv_dist)
             IN  CASE s.mouse_mode = "Push" ->
                        [p EXCEPT !.dx = FAdd(p.dx, FMul(nx, push)),
                                  !.dy = FAdd(p.dy, FMul(ny, push))]
                   [] s.mouse_mode = "Pull" ->
                        [p EXCEPT !.dx = FSub(p.dx, FMul(FMul(nx, push), 50)),
                                  !.dy = FSub(p.dy, FMul(FMul(ny, push), 50))]
                   [] s.mouse_mode = "Swirl" ->
                        [p EXCEPT !.dx = FAdd(FAdd(p.dx, FMul(FMul(tangent_x, push), 70)),
                                              FMul(FMul(nx, push), 20)),
                                  !.dy = FAdd(FAdd(p.dy, FMul(FMul(tangent_y, push), 70)),
                                              FMul(FMul(ny, push), 20))]

apply_mouse_influence(s) ==
    IF ~s.mouse_in_canvas THEN s
    ELSE [s EXCEPT !.points = [i \in 1..Len(s.points) |-> mouse_force_on(s.points[i], s)]]

\* a / b for b > 0, rounded to nearest
RoundDiv(a, b) ==
    IF a < 0 THEN 0 - ((0 - a) + b \div 2) \div b ELSE (a + b \div 2) \div b

\* The reciprocal of a distance, the unit direction and the force are small
\* numbers that f32 holds to 24 significant bits; hundredths would round them
\* to zero from 200 units on.  They are kept finer: inv_dist in 10^-7,
\* nx and ny in thousandths, force in 10^-5.
gravity_force_on(p, well) ==
    LET min_dist_sq == FMul(GRAVITY_WELL_MIN_DIST, GRAVITY_WELL_MIN_DIST)
        dx == FSub(well.x, p.x)
        dy == FSub(well.y, p.y)
        dist_sq == FAdd(FMul(dx, dx), FMul(dy, dy))
        dist == IF FLt(dist_sq, min_dist_sq) THEN GRAVITY_WELL_MIN_DIST
                ELSE FSqrt(dist_sq)
    IN  IF dist = NaN THEN [p EXCEPT !.dx = NaN, !.dy = NaN]
        ELSE LET force == RoundDiv(well.strength * 10 ^ 5, FMul(dist, 10))
                 inv_dist == RoundDiv(10 ^ 9, dist)
                 nx == RoundDiv(dx * inv_dist, 10 ^ 6)
                 ny == RoundDiv(dy * inv_dist, 10 ^ 6)
             IN  [p EXCEPT !.dx = FAdd(p.dx, RoundDiv(nx * force, 10 ^ 6)),
                           !.dy = FAdd(p.dy, RoundDiv(ny * force, 10 ^ 6))]

\* mutant of apply_gravity_well: the kernel also moves the particle
apply_gravity_well_moves_position(s) ==
    IF s.gravity_well = <<>> THEN s
    ELSE [s EXCEPT !.points =
             [i \in 1..Len(s.points) |->
                 LET q == gravity_force_on(s.points[i], s.gravity_well[1])
                 IN  [q EXCEPT !.x = FAdd(q.base_x, q.dx), !.y = FAdd(q.base_y, q.dy)]]]

apply_gravity_well(s) ==
    IF s.gravity_well = <<>> THEN s
    ELSE [s EXCEPT !.points =
              [i \in 1..Len(s.points) |-> gravity_force_on(s.points[i], s.gravity_well[1])]]

shockwave_force_on(p, wave) ==
    LET min_radius == FMax(FSub(wave.radius, SHOCKWAVE_WAVE_WIDTH), 0)
        max_radius == FAdd(wave.radius, SHOCKWAVE_WAVE_WIDTH)
        min_radius_sq == FMul(min_radius, min_radius)
        max_radius_sq == FMul(max_radius, max_radius)
        dx == FSub(p.x, wave.x)
        dy == FSub(p.y, wave.y)
        dist_sq == FAdd(FMul(dx, dx), FMul(dy, dy))
    IN  IF FLt(dist_sq, min_radius_sq) \/ FGt(dist_sq, max_radius_sq)
           \/ FLt(dist_sq, MIN_DIST_SQ)
        THEN p
        ELSE LET dist == FSqrt(dist_sq)
                 ring_dist == FAbs(FSub(dist, wave.radius))
             IN  IF FLt(ring_dist, SHOCKWAVE_WAVE_WIDTH)
                 THEN LET falloff == FSub(ONE, FDiv(ring_dist, SHOCKWAVE_WAVE_WIDTH))
                          push == FMul(FMul(wave.strength, falloff), 15)
                          inv_dist == FDiv(ONE, dist)
                          nx == FMul(dx, inv_dist)
                          ny == FMul(dy, inv_dist)
                      IN  [p EXCEPT !.dx = FAdd(p.dx, FMul(nx, push)),
                                    !.dy = FAdd(p.dy, FMul(ny, push))]
                 ELSE p

RECURSIVE shockwaves_force_on(_, _, _)
\* the waves from index k on, applied to p in collection order
shockwaves_force_on(p, waves, k) ==
    IF k > Len(waves) THEN p
    ELSE shockwaves_force_on(shockwave_force_on(p, waves[k]), waves, k + 1)

apply_shockwave_forces(s) ==
    [s EXCEPT !.points =
        [i \in 1..Len(s.points) |-> shockwaves_force_on(s.points[i], s.shockwaves, 1)]]

\* mutant of update_points_integrated: the arguments are not clamped
update_points_integrated_unclamped(s, delta_time_in, speed_in) ==
    LET s1 == update_shockwaves(s)
    IN  [s1 EXCEPT !.points = integrate_points(s1, delta_time_in, speed_in)]

\* what update_points leaves after its integration loop, before the kernels
update_points_integrated(s, delta_time_in, speed_in) ==
    LET delta_time == FClamp(delta_time_in, 0, F(10))
        speed == FClamp(speed_in, 0, F(10))
        s1 == update_shockwaves(s)
    IN  [s1 EXCEPT !.points = integrate_points(s1, delta_time, speed)]

\* mutant of update_points: the waves are ticked, apply their force, and only
\* then are the spent ones removed
update_points_prunes_last(s, delta_time_in, speed_in) ==
    LET delta_time == FClamp(delta_time_in, 0, F(10))
        speed == FClamp(speed_in, 0, F(10))
        ticked == [i \in 1..Len(s.shockwaves) |-> Shockwave_update(s.shockwaves[i])]
        s1 == [s EXCEPT !.shockwaves = ticked]
        s2 == [s1 EXCEPT !.points = integrate_points(s1, delta_time, speed)]
        s3 == apply_shockwave_forces(apply_gravity_well(apply_mouse_influence(s2)))
    IN  [s3 EXCEPT !.shockwaves = SelectSeq(ticked, Shockwave_is_active)]

update_points(s, delta_time_in, speed_in) ==
    apply_shockwave_forces(
        apply_gravity_well(
            apply_mouse_influence(update_points_integrated(s, delta_time_in, speed_in))))

-----------------------------------------------------------------------------
(* The calls of the host, as actions *)

Returned(op, value) == [op |-> op, value |-> value]
\* a call that returns nothing, with the arguments it was given
Asked(op, args) == [op |-> op, value |-> 0, args |-> args]

TriggerShockwave(x, y, strength) ==
    /\ sim' = trigger_shockwave(sim, x, y, strength, triggers + 1, frames)
    /\ triggers' = triggers + 1
    /\ ret' = Returned("trigger_shockwave", 0)
    /\ UNCHANGED <<frames, moves, integrated, grid, placed, reconfigured>>

UpdatePoints(delta_time, speed) ==
    /\ sim' = update_points(sim, delta_time, speed)
    /\ integrated' = update_points_integrated(sim, delta_time, speed).points
    /\ frames' = frames + 1
    /\ ret' = Asked("update_points", [delta_time |-> delta_time, speed |-> speed])
    /\ UNCHANGED <<triggers, moves, grid, placed, reconfigured>>

SetMouseState(x, y, in_canvas, radius, strength, mode) ==
    /\ sim' = set_mouse_state(sim, x, y, in_canvas, radius, strength, mode)
    /\ moves' = moves + 1
    /\ ret' = Asked("set_mouse_state", [mouse_x |-> x, mouse_y |-> y, mouse_in_canvas |-> in_canvas,
                                        mouse_radius |-> radius, mouse_strength |-> strength,
                                        mouse_mode |-> mode])
    /\ UNCHANGED <<frames, triggers, integrated, grid, placed, reconfigured>>

SetPhysicsParams(spring_back, damping, velocity_influence) ==
    /\ sim' = set_physics_params(sim, spring_back, damping, velocity_influence)
    /\ ret' = Returned("set_physics_params", 0)
    /\ UNCHANGED <<frames, triggers, moves, integrated, grid, placed, reconfigured>>

SetGravityWell(x, y, active, attract) ==
    /\ sim' = set_gravity_well(sim, x, y, active, attract)
    /\ ret' = Asked("set_gravity_well", [x |-> x, y |-> y, active |-> active, attract |-> attract])
    /\ UNCHANGED <<frames, triggers, moves, integrated, grid, placed, reconfigured>>

UpdateGravityWellPosition(x, y) ==
    /\ sim' = update_gravity_well_position(sim, x, y)
    /\ ret' = Asked("update_gravity_well_position", [x |-> x, y |-> y])
    /\ UNCHANGED <<frames, triggers, moves, integrated, grid, placed, reconfigured>>

\* the state after `new`, with the history variables at their start
Constructed(width, height, point_count, seed) ==
    /\ sim = Simulation_new(width, height, point_count, seed)
    /\ ret = Returned("new", 0)
    /\ frames = 0
    /\ triggers = 0
    /\ moves = 0
    /\ integrated = <<>>
    /\ grid = <<>>
    /\ placed = <<>>
    /\ reconfigured = 0

-----------------------------------------------------------------------------
(* SpecEvict: the shockwave collection under more triggers than it holds *)

MaxTriggers == 11
MaxFramesEvict == 1

\* requested strengths: one above the clamp and one that a single decay step ends
EvictStrengths == {F(600), 52}

InitEvict == Constructed(F(10), F(10), 3, 42)

NextEvict ==
    \/ /\ triggers < MaxTriggers
       /\ \E st \in EvictStrengths : TriggerShockwave(F(5), F(5), st)
    \/ /\ frames < MaxFramesEvict
       /\ UpdatePoints(2, ONE)

SpecEvict == InitEvict /\ [][NextEvict]_vars

\* C1: after any sequence of trigger_shockwave and update_points calls the
\* simulation holds at most MAX_SHOCKWAVES (10) shockwaves.
C1_AtMostTenShockwaves == Len(sim.shockwaves) <= MAX_SHOCKWAVES

\* C1 witness: more waves were triggered than fit, and the collection is full
C1_Witness == triggers > MAX_SHOCKWAVES /\ Len(sim.shockwaves) = MAX_SHOCKWAVES

WaveSeqs(waves) == {waves[i].seq : i \in 1..Len(waves)}

OldestFirst(waves) == \A i \in 1..(Len(waves) - 1) : waves[i].seq < waves[i + 1].seq

\* a trigger_shockwave step taken with the collection full
EvictingStep == triggers' = triggers + 1 /\ Len(sim.shockwaves) = MAX_SHOCKWAVES

\* what a trigger_shockwave step at capacity does to the collection
EvictsOldest ==
    /\ Len(sim'.shockwaves) = MAX_SHOCKWAVES
    /\ \A i \in 1..(MAX_SHOCKWAVES - 1) : sim'.shockwaves[i] = sim.shockwaves[i + 1]
    /\ sim.shockwaves[1].seq \notin WaveSeqs(sim'.shockwaves)
    /\ \A i \in 2..MAX_SHOCKWAVES : sim.shockwaves[1].seq < sim.shockwaves[i].seq
    /\ sim'.shockwaves[MAX_SHOCKWAVES].seq = triggers'

\* C2: a trigger at capacity removes exactly the earliest-triggered wave held and
\* appends the new one last, the other nine keeping their order and state; a frame
\* step only removes waves; so the collection is always ordered oldest-first.
C2_FifoEviction ==
    /\ [](OldestFirst(sim.shockwaves))
    /\ [][(EvictingStep => EvictsOldest)
          /\ (frames' = frames + 1 =>
                 WaveSeqs(sim'.shockwaves) \subseteq WaveSeqs(sim.shockwaves))]_vars

\* C2 witness: the 11th trigger has evicted the first wave from a full collection
\* in which a frame step had pruned another wave before
C2_Witness ==
    /\ triggers > MAX_SHOCKWAVES
    /\ frames > 0
    /\ Len(sim.shockwaves) = MAX_SHOCKWAVES
    /\ ret.op = "trigger_shockwave"
    /\ sim.shockwaves[1].born = 0
    /\ sim.shockwaves[MAX_SHOCKWAVES].born > 0

-----------------------------------------------------------------------------
(* SpecDecay: the life of a shockwave from its trigger to its removal *)

MaxTriggersDecay == 2
TriggerWindow == 2
MaxFramesDecay == 172

\* requested strengths: NaN, negative, below the activity threshold, ordinary,
\* above the clamp
DecayStrengths == {NaN, 0 - F(5), 30, F(20), F(600)}

InitDecay == Constructed(F(10), F(10), 3, 42)

NextDecay ==
    \/ /\ triggers < MaxTriggersDecay
       /\ frames < TriggerWindow
       /\ \E st \in DecayStrengths : TriggerShockwave(F(5), F(5), st)
    \/ /\ frames < MaxFramesDecay
       /\ UpdatePoints(2, ONE)

SpecDecay == InitDecay /\ [][NextDecay]_vars

WaveWithSeq(waves, q) == waves[CHOOSE i \in 1..Len(waves) : waves[i].seq = q]

\* C3: across a frame step a held wave's strength does not increase (and strictly
\* decreases while positive) and its radius grows by exactly 12; and no wave is
\* still held 170 frame steps after its trigger.
C3_DecayAndRemoval ==
    /\ [](\A i \in 1..Len(sim.shockwaves) : frames - sim.shockwaves[i].born < 170)
    /\ [][frames' = frames + 1 =>
            \A q \in WaveSeqs(sim'.shockwaves) :
                LET old == WaveWithSeq(sim.shockwaves, q)
                    new == WaveWithSeq(sim'.shockwaves, q)
                IN  /\ q \in WaveSeqs(sim.shockwaves)
                    /\ FLe(new.strength, old.strength)
                    /\ (FGt(old.strength, 0) => FLt(new.strength, old.strength))
                    /\ new.radius = old.radius + F(12)]_vars

\* C3 witness: a wave triggered at full strength is still held 169 frame steps later
C3_Witness ==
    \E i \in 1..Len(sim.shockwaves) :
        /\ frames - sim.shockwaves[i].born = 169
        /\ sim.shockwaves[i].radius = 169 * F(12)

\* the waves of s that are still held, under their serial numbers, in held
SurvivorsOf(s, held) ==
    LET Survives(w) == w.seq \in WaveSeqs(held)
    IN  SelectSeq(s.shockwaves, Survives)

\* C21: in a frame step every wave is ticked (radius + 12, strength * 0.96) and
\* the waves whose strength is then <= 0.5 are removed before the shockwave
\* force is applied: a removed wave leaves no trace on the particles (the step
\* ends as if the wave had not been there), and every wave held when the step
\* returns has strength > 0.5.
C21_SpentWavesApplyNoForce ==
    [][ret'.op = "update_points" =>
          LET ticked == [i \in 1..Len(sim.shockwaves) |->
                            [sim.shockwaves[i] EXCEPT
                                !.radius = FAdd(sim.shockwaves[i].radius, F(12)),
                                !.strength = FMul(sim.shockwaves[i].strength, 96)]]
              without == [sim EXCEPT !.shockwaves = SurvivorsOf(sim, sim'.shockwaves)]
          IN  /\ \A i \in 1..Len(sim'.shockwaves) :
                     /\ FGt(sim'.shockwaves[i].strength, 50)
                     /\ \E k \in 1..Len(ticked) : sim'.shockwaves[i] = ticked[k]
              /\ \A k \in 1..Len(ticked) :
                     FLe(ticked[k].strength, 50) =>
                         ticked[k].seq \notin WaveSeqs(sim'.shockwaves)
              /\ sim'.points =
                     update_points(without, ret'.args.delta_time, ret'.args.speed).points]_vars

\* C21 witness: of two waves triggered before the first frame step, that step
\* removed one and let the other push a particle
C21_Witness ==
    /\ ret.op = "update_points"
    /\ frames = 1
    /\ triggers = 2
    /\ Len(sim.shockwaves) = 1
    /\ \E i \in 1..Len(sim.points) : sim.points[i].dx # 0 /\ sim.points[i].dx # NaN

\* C4 (as claimed): every held shockwave has radius >= 0 and 0 <= strength <= 500,
\* whatever strength was passed to trigger_shockwave.
C4_StrengthWithinClamp ==
    \A i \in 1..Len(sim.shockwaves) :
        /\ FGe(sim.shockwaves[i].strength, 0)
        /\ FLe(sim.shockwaves[i].strength, F(500))

-----------------------------------------------------------------------------
(* SpecDrift: frame steps alone, over the whole clamped range of dt and speed *)

MaxFramesDrift == 3

DriftWidths == {F(10), F(80)}

\* requested dt: negative, one display frame, one unit, the clamp maximum, above it
DriftDeltaTimes == {0 - ONE, 2, ONE, F(10), F(20)}
\* requested speed: negative, one, the clamp maximum, above it
DriftSpeeds == {0 - F(2), ONE, F(10), F(30)}

InitDrift == \E w \in DriftWidths : Constructed(w, F(10), 3, 42)

NextDrift ==
    /\ frames < MaxFramesDrift
    /\ \E dt \in DriftDeltaTimes, speed \in DriftSpeeds : UpdatePoints(dt, speed)

SpecDrift == InitDrift /\ [][NextDrift]_vars

\* C5 (as claimed): after every frame step every particle's base_x lies in
\* [0, width) and its base_y in [0, height).
C5_BaseWithinBounds ==
    frames > 0 =>
        \A i \in 1..Len(sim.points) :
            /\ FGe(sim.points[i].base_x, 0) /\ FLt(sim.points[i].base_x, sim.width)
            /\ FGe(sim.points[i].base_y, 0) /\ FLt(sim.points[i].base_y, sim.height)

\* v clamped to [0, 10]
ClampedToTen(v) == IF FLt(v, 0) THEN 0 ELSE IF FGt(v, F(10)) THEN F(10) ELSE v

BaseInside(p, s) ==
    /\ FGe(p.base_x, 0) /\ FLe(p.base_x, s.width)
    /\ FGe(p.base_y, 0) /\ FLe(p.base_y, s.height)

C18_NoForceNoDisplacement ==
    (~sim.mouse_in_canvas /\ moves = 0 /\ triggers = 0 /\ sim.gravity_well = <<>>) =>
        \A i \in 1..Len(sim.points) :
            /\ sim.points[i].dx = 0 /\ sim.points[i].dy = 0
            /\ sim.points[i].x = sim.points[i].base_x
            /\ sim.points[i].y = sim.points[i].base_y

-----------------------------------------------------------------------------
(* SpecIntegrate: frame steps between pointer, gravity-well, shockwave and *)
(* physics-parameter calls, with the arguments a host can pass             *)

MaxFramesIntegrate == 2
MaxMovesIntegrate == 1
MaxTriggersIntegrate == 1

IntegratePositions == {<<F(5), F(5)>>, <<F(2), F(7)>>}
IntegrateDeltaTimes == {NaN, 2, ONE}
IntegrateDampings == {DEFAULT_DAMPING, NaN}

InitIntegrate == Constructed(F(10), F(10), 3, 42)

NextIntegrate ==
    \/ /\ frames < MaxFramesIntegrate
       /\ \E dt \in IntegrateDeltaTimes : UpdatePoints(dt, ONE)
    \/ /\ moves < MaxMovesIntegrate
       /\ \E pos \in IntegratePositions, in_canvas \in BOOLEAN, mode \in {0, 2} :
              SetMouseState(pos[1], pos[2], in_canvas, F(4), F(80), mode)
    \/ \E active \in BOOLEAN, attract \in BOOLEAN :
           SetGravityWell(F(5), F(5), active, attract)
    \/ UpdateGravityWellPosition(F(2), F(7))
    \/ /\ triggers < MaxTriggersIntegrate
       /\ TriggerShockwave(F(5), F(5), F(100))
    \/ \E damping \in IntegrateDampings :
           SetPhysicsParams(DEFAULT_SPRING_BACK, damping, DEFAULT_VELOCITY_INFLUENCE)

SpecIntegrate == InitIntegrate /\ [][NextIntegrate]_vars

\* C6 (as claimed): right after the integration loop of a frame step, before any
\* force kernel, every particle satisfies x == base_x + dx and y == base_y + dy.
C6_PositionIsBasePlusDisplacement ==
    \A i \in 1..Len(integrated) :
        /\ FEq(integrated[i].x, FAdd(integrated[i].base_x, integrated[i].dx))
        /\ FEq(integrated[i].y, FAdd(integrated[i].base_y, integrated[i].dy))

-----------------------------------------------------------------------------
(* SpatialGrid (spatial_grid.rs): a uniform grid of cells holding particle  *)
(* indices.  Cell k of the program is cells[k + 1] here.                    *)

\* (a / b).floor() and (a / b).ceil() for a divisor b > 0, as whole numbers:
\* the quotient is rounded as every f32 quotient is, and then made whole
FloorDiv(a, b) == IF FDiv(a, b) = NaN THEN NaN ELSE FDiv(a, b) \div ONE
CeilDiv(a, b) == IF FDiv(a, b) = NaN THEN NaN ELSE 0 - ((0 - FDiv(a, b)) \div ONE)

\* `as usize` of a whole f32: NaN and negative values become 0
AsUsize(v) == IF v = NaN \/ v < 0 THEN 0 ELSE v

UMax(a, b) == IF a > b THEN a ELSE b
UMin(a, b) == IF a < b THEN a ELSE b

SpatialGrid_new(width, height, cell_size_in) ==
    LET cell_size == FMax(cell_size_in, ONE)
        cols == UMax(AsUsize(CeilDiv(width, cell_size)), 1)
        rows == UMax(AsUsize(CeilDiv(height, cell_size)), 1)
    IN  [cells |-> [k \in 1..(cols * rows) |-> <<>>],
         cell_size |-> cell_size, cols |-> cols, rows |-> rows,
         width |-> width, height |-> height]

SpatialGrid_clear(g) == [g EXCEPT !.cells = [k \in 1..Len(g.cells) |-> <<>>]]

SpatialGrid_resize(g, width, height, cell_size_in) ==
    LET cell_size == FMax(cell_size_in, ONE)
        cols == UMax(AsUsize(CeilDiv(width, cell_size)), 1)
        rows == UMax(AsUsize(CeilDiv(height, cell_size)), 1)
        resized == [k \in 1..(cols * rows) |->
                        IF k <= Len(g.cells) THEN g.cells[k] ELSE <<>>]
    IN  SpatialGrid_clear([cells |-> resized,
                           cell_size |-> cell_size, cols |-> cols, rows |-> rows,
                           width |-> width, height |-> height])

\* mutant of SpatialGrid_cell_index: the column and the row are not clamped to
\* the last column and row
SpatialGrid_cell_index_unclamped(g, x, y) ==
    LET col == AsUsize(FloorDiv(x, g.cell_size))
        row == AsUsize(FloorDiv(y, g.cell_size))
    IN  row * g.cols + col

\* the 0-based cell index of a position
SpatialGrid_cell_index(g, x, y) ==
    LET col == UMin(AsUsize(FloorDiv(x, g.cell_size)), g.cols - 1)
        row == UMin(AsUsize(FloorDiv(y, g.cell_size)), g.rows - 1)
    IN  row * g.cols + col

SpatialGrid_insert(g, point_index, x, y) ==
    LET idx == SpatialGrid_cell_index(g, x, y)
    IN  [g EXCEPT !.cells[idx + 1] = Append(@, point_index)]

RECURSIVE collect_cells(_, _, _, _, _, _)
\* the cells of rows row..max_row-1, columns min_col..max_col-1, from (row, col) on
collect_cells(g, row, col, min_col, max_col, max_row) ==
    IF row >= max_row \/ min_col >= max_col THEN <<>>
    ELSE IF col >= max_col THEN collect_cells(g, row + 1, min_col, min_col, max_col, max_row)
    ELSE g.cells[row * g.cols + col + 1]
         \o collect_cells(g, row, col + 1, min_col, max_col, max_row)

\* the ranges of columns and rows query_radius iterates, upper bounds exclusive
query_radius_ranges(g, cx, cy, radius) ==
    [min_col |-> AsUsize(FMax(FloorDiv(FSub(cx, radius), g.cell_size), 0)),
     max_col |-> AsUsize(FMin(CeilDiv(FAdd(cx, radius), g.cell_size), g.cols)),
     min_row |-> AsUsize(FMax(FloorDiv(FSub(cy, radius), g.cell_size), 0)),
     max_row |-> AsUsize(FMin(CeilDiv(FAdd(cy, radius), g.cell_size), g.rows))]

collect_ranges(g, b) == collect_cells(g, b.min_row, b.min_col, b.min_col, b.max_col, b.max_row)

SpatialGrid_query_radius(g, cx, cy, radius) ==
    collect_ranges(g, query_radius_ranges(g, cx, cy, radius))

\* the calls on a grid, as actions; particle i of the program is placed[i + 1]
GridInsert(x, y) ==
    /\ grid' = SpatialGrid_insert(grid, Len(placed), x, y)
    /\ placed' = Append(placed, <<x, y>>)
    /\ ret' = Returned("insert", 0)
    /\ UNCHANGED <<sim, frames, triggers, moves, integrated, reconfigured>>

GridClear ==
    /\ grid' = SpatialGrid_clear(grid)
    /\ placed' = <<>>
    /\ ret' = Returned("clear", 0)
    /\ UNCHANGED <<sim, frames, triggers, moves, integrated, reconfigured>>

GridResize(width, height, cell_size) ==
    /\ grid' = SpatialGrid_resize(grid, width, height, cell_size)
    /\ placed' = <<>>
    /\ ret' = Returned("resize", 0)
    /\ UNCHANGED <<sim, frames, triggers, moves, integrated, reconfigured>>

GridQuery(cx, cy, radius) ==
    /\ ret' = Returned("query_radius",
                       [cx |-> cx, cy |-> cy, radius |-> radius,
                        found |-> SpatialGrid_query_radius(grid, cx, cy, radius)])
    /\ UNCHANGED <<sim, frames, triggers, moves, integrated, grid, placed, reconfigured>>

-----------------------------------------------------------------------------
(* SpecGrid: a grid filled with up to MaxPlaced particles and queried *)

MaxPlaced == 2

\* dimensions of the grid, in whole units
GridWidth == 4
GridHeight == 4

\* cell sizes: below the floor of 1, dividing the width, not dividing it
GridCellSizes == {50, F(2), F(3)}
\* particle coordinates, all within the grid: on its edges, on and off cell
\* boundaries
GridCoordinates == {0, 150, F(2), F(4)}
GridCentres == {F(1), F(3), F(4)}
GridRadii == {0, ONE, F(2)}

InitGrid ==
    /\ sim = Simulation_new(F(GridWidth), F(GridHeight), 3, 42)
    /\ ret = Returned("new", 0)
    /\ frames = 0
    /\ triggers = 0
    /\ moves = 0
    /\ integrated = <<>>
    /\ \E cell_size \in GridCellSizes : grid = SpatialGrid_new(F(GridWidth), F(GridHeight), cell_size)
    /\ placed = <<>>
    /\ reconfigured = 0

NextGrid ==
    \/ /\ Len(placed) < MaxPlaced
       /\ \E x \in GridCoordinates, y \in GridCoordinates : GridInsert(x, y)
    \/ GridClear
    \/ \E cell_size \in GridCellSizes : GridResize(F(GridWidth), F(GridHeight), cell_size)
    \/ \E cx \in GridCentres, cy \in GridCentres, radius \in GridRadii :
           GridQuery(cx, cy, radius)

SpecGrid == InitGrid /\ [][NextGrid]_vars

\* the exact squared distance test: (x - cx)^2 + (y - cy)^2 <= radius^2
WithinRadius(pos, cx, cy, radius) ==
    (pos[1] - cx) * (pos[1] - cx) + (pos[2] - cy) * (pos[2] - cy) <= radius * radius

Found(q) == {q.found[k] : k \in 1..Len(q.found)}

\* C7 (as claimed): query_radius returns the index of every inserted particle
\* whose distance from the centre is at most the radius.
C7_NoFalseNegatives ==
    ret.op = "query_radius" =>
        \A i \in 1..Len(placed) :
            WithinRadius(placed[i], ret.value.cx, ret.value.cy, ret.value.radius)
                => (i - 1) \in Found(ret.value)

-----------------------------------------------------------------------------
(* Triangulation: ghosts, corner anchors, the triangle list, the buffers.   *)
(* A position is a triple <<x, y, z>>; index k of the program is entry k+1. *)

RECURSIVE Flatten(_, _)
\* the concatenation of the sequences seqs[k], seqs[k+1], ...
Flatten(seqs, k) ==
    IF k > Len(seqs) THEN <<>> ELSE seqs[k] \o Flatten(seqs, k + 1)

\* mutant of ghosts_of: no corner ghosts
ghosts_of_edges_only(p, width, height) ==
    LET threshold_x == FMul(width, GHOST_THRESHOLD)
        threshold_y == FMul(height, GHOST_THRESHOLD)
        near_left == FLt(p.x, threshold_x)
        near_right == FGt(p.x, FSub(width, threshold_x))
        near_top == FLt(p.y, threshold_y)
        near_bottom == FGt(p.y, FSub(height, threshold_y))
    IN  (IF near_left THEN <<<<FAdd(p.x, width), p.y, p.z>>>> ELSE <<>>)
        \o (IF near_right THEN <<<<FSub(p.x, width), p.y, p.z>>>> ELSE <<>>)
        \o (IF near_top THEN <<<<p.x, FAdd(p.y, height), p.z>>>> ELSE <<>>)
        \o (IF near_bottom THEN <<<<p.x, FSub(p.y, height), p.z>>>> ELSE <<>>)

\* the ghosts of one particle, in the order the code pushes them
ghosts_of(p, width, height) ==
    LET threshold_x == FMul(width, GHOST_THRESHOLD)
        threshold_y == FMul(height, GHOST_THRESHOLD)
        near_left == FLt(p.x, threshold_x)
        near_right == FGt(p.x, FSub(width, threshold_x))
        near_top == FLt(p.y, threshold_y)
        near_bottom == FGt(p.y, FSub(height, threshold_y))
        xl == FAdd(p.x, width)
        xr == FSub(p.x, width)
        yt == FAdd(p.y, height)
        yb == FSub(p.y, height)
    IN  (IF near_left THEN <<<<xl, p.y, p.z>>>> ELSE <<>>)
        \o (IF near_right THEN <<<<xr, p.y, p.z>>>> ELSE <<>>)
        \o (IF near_top THEN <<<<p.x, yt, p.z>>>> ELSE <<>>)
        \o (IF near_bottom THEN <<<<p.x, yb, p.z>>>> ELSE <<>>)
        \o (IF near_left /\ near_top THEN <<<<xl, yt, p.z>>>> ELSE <<>>)
        \o (IF near_left /\ near_bottom THEN <<<<xl, yb, p.z>>>> ELSE <<>>)
        \o (IF near_right /\ near_top THEN <<<<xr, yt, p.z>>>> ELSE <<>>)
        \o (IF near_right /\ near_bottom THEN <<<<xr, yb, p.z>>>> ELSE <<>>)

generate_ghost_points(s) ==
    Flatten([i \in 1..Len(s.points) |-> ghosts_of(s.points[i], s.width, s.height)], 1)

\* the four anchors one unit outside the corners
corners(s) ==
    LET margin == ONE
    IN  << <<FNeg(margin), FNeg(margin), 0>>,
           <<FAdd(s.width, margin), FNeg(margin), 0>>,
           <<FAdd(s.width, margin), FAdd(s.height, margin), 0>>,
           <<FNeg(margin), FAdd(s.height, margin), 0>> >>

\* particles, then ghosts, then corners
all_points(s) ==
    [i \in 1..Len(s.points) |-> <<s.points[i].x, s.points[i].y, s.points[i].z>>]
    \o generate_ghost_points(s) \o corners(s)

-----------------------------------------------------------------------------
(* The triangle list.  delaunay_triangulate belongs to the delaunator crate; *)
(* it is modelled by its contract: a triangulation of the distinct input    *)
(* positions that covers their convex hull, empty when they are all on one  *)
(* line.  Every such triangulation has the same number of triangles.  The   *)
(* one computed here sweeps the positions from left to right, joining each  *)
(* new position to the hull edges it sees; which of the triangulations the  *)
(* crate returns (the Delaunay one) is not modelled.  Positions with a NaN  *)
(* coordinate are left out.                                                 *)

\* twice the signed area of the triangle a, b, c: positive when counter-clockwise
Orient(pts, a, b, c) ==
    (pts[b][1] - pts[a][1]) * (pts[c][2] - pts[a][2])
    - (pts[b][2] - pts[a][2]) * (pts[c][1] - pts[a][1])

SamePosition(pts, a, b) == pts[a][1] = pts[b][1] /\ pts[a][2] = pts[b][2]

LeftOf(pts, a, b) ==
    pts[a][1] < pts[b][1] \/ (pts[a][1] = pts[b][1] /\ pts[a][2] < pts[b][2])

\* the first entry of every distinct position that has no NaN coordinate
DistinctPositions(pts) ==
    {a \in 1..Len(pts) :
        /\ pts[a][1] # NaN /\ pts[a][2] # NaN
        /\ \A b \in 1..(a - 1) : ~SamePosition(pts, a, b)}

RECURSIVE SortByPosition(_, _)
SortByPosition(pts, S) ==
    IF S = {} THEN <<>>
    ELSE LET m == CHOOSE a \in S : \A b \in S \ {a} : LeftOf(pts, a, b)
         IN  <<m>> \o SortByPosition(pts, S \ {m})

\* the hull edge from hull[i] to its successor is seen from p
Sees(pts, hull, i, p) ==
    Orient(pts, hull[i], hull[(i % Len(hull)) + 1], p) < 0

\* p joined to a sweep state [line, hull, tris]: line holds the positions so far
\* while they are all on one line, hull the counter-clockwise hull afterwards
sweep_add(pts, st, p) ==
    IF st.hull = <<>>
    THEN IF Len(st.line) < 2 \/ Orient(pts, st.line[1], st.line[2], p) = 0
         THEN [st EXCEPT !.line = Append(st.line, p)]
         ELSE LET n == Len(st.line)
                  ccw == Orient(pts, st.line[1], st.line[2], p) > 0
                  base == IF ccw THEN st.line ELSE [i \in 1..n |-> st.line[n + 1 - i]]
              IN  [line |-> <<>>,
                   hull |-> Append(base, p),
                   tris |-> [i \in 1..(n - 1) |-> <<base[i], base[i + 1], p>>]]
    ELSE LET m == Len(st.hull)
             first == CHOOSE i \in 1..m :
                          /\ Sees(pts, st.hull, i, p)
                          /\ ~Sees(pts, st.hull, ((i + m - 2) % m) + 1, p)
             turned == [i \in 1..m |-> st.hull[((first + i - 2) % m) + 1]]
             seen == CHOOSE k \in 1..(m - 1) :
                         /\ \A j \in 1..k : Sees(pts, turned, j, p)
                         /\ ~Sees(pts, turned, k + 1, p)
         IN  [line |-> <<>>,
              hull |-> <<turned[1], p>> \o SubSeq(turned, seen + 1, m),
              tris |-> st.tris \o [j \in 1..seen |-> <<turned[j + 1], turned[j], p>>]]

RECURSIVE sweep(_, _, _, _)
sweep(pts, order, k, st) ==
    IF k > Len(order) THEN st
    ELSE sweep(pts, order, k + 1, sweep_add(pts, st, order[k]))

\* the indices (from 0) of the corners of the triangles, three per triangle
delaunay_triangulate(pts) ==
    LET order == SortByPosition(pts, DistinctPositions(pts))
        done == sweep(pts, order, 1, [line |-> <<>>, hull |-> <<>>, tris |-> <<>>])
    IN  Flatten([t \in 1..Len(done.tris) |->
                    <<done.tris[t][1] - 1, done.tris[t][2] - 1, done.tris[t][3] - 1>>], 1)

-----------------------------------------------------------------------------
(* The output buffers *)

\* mutant of triangle_floats: five floats a vertex
triangle_floats_short(p0, p1, p2) ==
    LET centroid_x == FDiv(FAdd(FAdd(p0[1], p1[1]), p2[1]), F(3))
        centroid_y == FDiv(FAdd(FAdd(p0[2], p1[2]), p2[2]), F(3))
        avg_height == FDiv(FAdd(FAdd(p0[3], p1[3]), p2[3]), F(3))
    IN  <<p0[1], p0[2], avg_height, centroid_x, centroid_y,
          p1[1], p1[2], avg_height, centroid_x, centroid_y,
          p2[1], p2[2], avg_height, centroid_x, centroid_y>>

\* the floats pushed to triangle_vertices for one triangle
triangle_floats(p0, p1, p2) ==
    LET centroid_x == FDiv(FAdd(FAdd(p0[1], p1[1]), p2[1]), F(3))
        centroid_y == FDiv(FAdd(FAdd(p0[2], p1[2]), p2[2]), F(3))
        avg_height == FDiv(FAdd(FAdd(p0[3], p1[3]), p2[3]), F(3))
    IN  <<p0[1], p0[2], avg_height, centroid_y, centroid_x, centroid_y,
          p1[1], p1[2], avg_height, centroid_y, centroid_x, centroid_y,
          p2[1], p2[2], avg_height, centroid_y, centroid_x, centroid_y>>

\* the floats pushed to stroke_vertices for one triangle: its three edges
stroke_floats(p0, p1, p2) ==
    <<p0[1], p0[2], p1[1], p1[2],
      p1[1], p1[2], p2[1], p2[2],
      p2[1], p2[2], p0[1], p0[2]>>

\* mutant of point_floats: every triangulated position, ghosts and corners too
point_floats_all(s) ==
    Flatten([i \in 1..Len(all_points(s)) |-> <<all_points(s)[i][1], all_points(s)[i][2]>>], 1)

\* the floats pushed to point_vertices: x, y of the particles
point_floats(s) ==
    Flatten([i \in 1..Len(s.points) |-> <<s.points[i].x, s.points[i].y>>], 1)

\* mutant of triangulate: the buffers are not cleared before they are filled
triangulate_appends(s) ==
    LET pts == all_points(s)
        triangles == delaunay_triangulate(pts)
        num_triangles == Len(triangles) \div 3
        corner(t, c) == pts[triangles[3 * (t - 1) + c] + 1]
    IN  [sim |-> [s EXCEPT
                    !.triangle_vertices = @ \o
                        Flatten([t \in 1..num_triangles |->
                                    triangle_floats(corner(t, 1), corner(t, 2), corner(t, 3))], 1),
                    !.stroke_vertices = @ \o
                        Flatten([t \in 1..num_triangles |->
                                    stroke_floats(corner(t, 1), corner(t, 2), corner(t, 3))], 1),
                    !.point_vertices = @ \o point_floats(s)],
         count |-> num_triangles]

\* [sim, count]: the simulation after triangulate and the value it returns
triangulate(s) ==
    LET pts == all_points(s)
        triangles == delaunay_triangulate(pts)
        num_triangles == Len(triangles) \div 3
        corner(t, c) == pts[triangles[3 * (t - 1) + c] + 1]
    IN  [sim |-> [s EXCEPT
                    !.triangle_vertices =
                        Flatten([t \in 1..num_triangles |->
                                    triangle_floats(corner(t, 1), corner(t, 2), corner(t, 3))], 1),
                    !.stroke_vertices =
                        Flatten([t \in 1..num_triangles |->
                                    stroke_floats(corner(t, 1), corner(t, 2), corner(t, 3))], 1),
                    !.point_vertices = point_floats(s)],
         count |-> num_triangles]

get_triangle_count(s) == Len(s.triangle_vertices) \div 18

get_stroke_vertex_count(s) == Len(s.stroke_vertices) \div 2

get_point_count(s) == Len(s.points)

\* [sim, count]
\* mutant of tick: the buffers are filled before the frame step
tick_triangulates_first(s, delta_time, speed, mouse_x, mouse_y, mouse_in_canvas, mouse_radius, mouse_strength, mouse_mode) ==
    LET out == triangulate(set_mouse_state(s, mouse_x, mouse_y, mouse_in_canvas,
                                           mouse_radius, mouse_strength, mouse_mode))
    IN  [sim |-> update_points(out.sim, delta_time, speed), count |-> out.count]

tick(s, delta_time, speed, mouse_x, mouse_y, mouse_in_canvas, mouse_radius, mouse_strength, mouse_mode) ==
    triangulate(
        update_points(
            set_mouse_state(s, mouse_x, mouse_y, mouse_in_canvas, mouse_radius,
                            mouse_strength, mouse_mode),
            delta_time, speed))

Triangulate ==
    \E out \in {triangulate(sim)} :
        /\ sim' = out.sim
        /\ ret' = Returned("triangulate", out.count)
        /\ UNCHANGED <<frames, triggers, moves, integrated, grid, placed, reconfigured>>

Tick(delta_time, speed, mouse_x, mouse_y, mouse_in_canvas, mouse_radius, mouse_strength, mouse_mode) ==
    \E out \in {tick(sim, delta_time, speed, mouse_x, mouse_y, mouse_in_canvas,
                     mouse_radius, mouse_strength, mouse_mode)} :
        /\ sim' = out.sim
        /\ ret' = [op |-> "tick", value |-> out.count,
                   args |-> [delta_time |-> delta_time, speed |-> speed,
                             mouse_x |-> mouse_x, mouse_y |-> mouse_y,
                             mouse_in_canvas |-> mouse_in_canvas,
                             mouse_radius |-> mouse_radius,
                             mouse_strength |-> mouse_strength,
                             mouse_mode |-> mouse_mode]]
        /\ integrated' =
               update_points_integrated(
                   set_mouse_state(sim, mouse_x, mouse_y, mouse_in_canvas, mouse_radius,
                                   mouse_strength, mouse_mode),
                   delta_time, speed).points
        /\ frames' = frames + 1
        /\ moves' = moves + 1
        /\ UNCHANGED <<triggers, grid, placed, reconfigured>>

-----------------------------------------------------------------------------
(* Spec: frames driven by tick or by update_points and triangulate, with a *)
(* pointer and a gravity well acting on the particles                      *)

MaxFrames == 2

PointCounts == {1, 3, 4}
TickPositions == {<<F(5), F(5)>>, <<F(8), F(3)>>}

Init == \E point_count \in PointCounts : Constructed(F(10), F(10), point_count, 42)

Next ==
    \/ /\ frames < MaxFrames
       /\ \E pos \in TickPositions, in_canvas \in BOOLEAN :
              Tick(2, ONE, pos[1], pos[2], in_canvas, F(4), F(80), 2)
    \/ /\ frames < MaxFrames
       /\ UpdatePoints(ONE, ONE)
    \/ Triangulate
    \/ \E active \in BOOLEAN : SetGravityWell(F(5), F(5), active, TRUE)

Spec == Init /\ [][Next]_vars

AllWithinBounds(s) ==
    \A i \in 1..Len(s.points) :
        /\ FGe(s.points[i].x, 0) /\ FLe(s.points[i].x, s.width)
        /\ FGe(s.points[i].y, 0) /\ FLe(s.points[i].y, s.height)

\* the last call was triangulate or tick, so the buffers are those it built from
\* the particles as they are now
JustTriangulated == ret.op \in {"triangulate", "tick"}

\* C8: when triangulate (alone or inside tick) ran on at least 3 particles all within
\* bounds, it returned a count >= 1 equal to get_triangle_count(), the triangle
\* buffer holds 18 x count floats and the stroke buffer 12 x count floats.
C8_TriangulateCountsAndSizes ==
    (JustTriangulated /\ get_point_count(sim) >= 3 /\ AllWithinBounds(sim)) =>
        /\ ret.value >= 1
        /\ ret.value = get_triangle_count(sim)
        /\ Len(sim.triangle_vertices) = 18 * ret.value
        /\ Len(sim.stroke_vertices) = 12 * ret.value

\* C8 witness: a tick, after an earlier frame, triangulated displaced particles that
\* are all within bounds, some of them with ghosts
C8_Witness ==
    /\ ret.op = "tick"
    /\ frames > 1
    /\ AllWithinBounds(sim)
    /\ \E i \in 1..Len(sim.points) : sim.points[i].dx # 0
    /\ generate_ghost_points(sim) # <<>>
    /\ ret.value > 2

\* C9: after every triangulate or tick the point buffer holds 2 x get_point_count()
\* floats, the x, y of each particle in index order, and nothing else.
C9_PointBufferIsParticles ==
    JustTriangulated =>
        /\ Len(sim.point_vertices) = 2 * get_point_count(sim)
        /\ \A i \in 1..Len(sim.points) :
               /\ sim.point_vertices[2 * i - 1] = sim.points[i].x
               /\ sim.point_vertices[2 * i] = sim.points[i].y

\* C9 witness: a tick on four particles with ghosts left 8 floats in the point buffer
C9_Witness ==
    /\ ret.op = "tick"
    /\ get_point_count(sim) = 4
    /\ Len(sim.point_vertices) = 8
    /\ Len(all_points(sim)) > get_point_count(sim) + 4

-----------------------------------------------------------------------------
(* Reconfiguration: noise parameters, canvas size, particle count *)

\* noise_scale counts ten-thousandths (0.0001 is 1, 1.0 is ONE * ONE)
set_noise_params(s, noise_scale_in, height_intensity_in) ==
    LET noise_scale == FMin(FMax(noise_scale_in, 1), ONE * ONE)
        height_intensity == FClamp(height_intensity_in, 0, F(2))
    IN  [s EXCEPT !.noise_scale = noise_scale,
                  !.height_intensity = height_intensity,
                  !.points = [i \in 1..Len(s.points) |->
                      [s.points[i] EXCEPT !.z =
                          calculate_static_height(s.points[i].base_x, s.points[i].base_y,
                                                  s.width, s.height, noise_scale,
                                                  height_intensity)]]]

\* mutant of Point_scale: the height and the drift velocity are scaled too
Point_scale_every_field(p, scale_x, scale_y) ==
    [p EXCEPT !.x = FMul(@, scale_x), !.y = FMul(@, scale_y),
              !.base_x = FMul(@, scale_x), !.base_y = FMul(@, scale_y),
              !.vx = FMul(@, scale_x), !.vy = FMul(@, scale_y),
              !.z = FMul(@, scale_x)]

\* mutant of Point_scale: the base position is not scaled
Point_scale_no_base(p, scale_x, scale_y) ==
    [p EXCEPT !.x = FMul(@, scale_x), !.y = FMul(@, scale_y)]

Point_scale(p, scale_x, scale_y) ==
    [p EXCEPT !.x = FMul(@, scale_x), !.y = FMul(@, scale_y),
              !.base_x = FMul(@, scale_x), !.base_y = FMul(@, scale_y)]

resize(s, new_width_in, new_height_in) ==
    LET new_width == validate_dimensions(new_width_in)
        new_height == validate_dimensions(new_height_in)
        scale_x == FDiv(new_width, s.width)
        scale_y == FDiv(new_height, s.height)
    IN  [s EXCEPT !.points = IF FGt(s.width, 0) /\ FGt(s.height, 0)
                             THEN [i \in 1..Len(s.points) |->
                                      Point_scale(s.points[i], scale_x, scale_y)]
                             ELSE @,
                  !.width = new_width,
                  !.height = new_height]

\* s with the grown particles and generator state g, cut down to count particles
truncate_points(s, g, count) ==
    [s EXCEPT !.rng = g.rng, !.points = SubSeq(g.points, 1, count)]

\* mutant of set_point_count: the output buffers are emptied
set_point_count_clears_buffers(s, count_in, seed) ==
    LET count == validate_point_count(count_in)
    IN  [truncate_points(s, grow_points(s.points, Rng_new(seed), count, s.width, s.height,
                                        s.noise_scale, s.height_intensity), count)
            EXCEPT !.triangle_vertices = <<>>,
                   !.stroke_vertices = <<>>,
                   !.point_vertices = <<>>]

\* mutant of set_point_count: the generator is not re-seeded
set_point_count_keeps_rng(s, count_in, seed) ==
    LET count == validate_point_count(count_in)
    IN  truncate_points(s, grow_points(s.points, s.rng, count, s.width, s.height,
                                       s.noise_scale, s.height_intensity), count)

set_point_count(s, count_in, seed) ==
    LET count == validate_point_count(count_in)
    IN  truncate_points(s, grow_points(s.points, Rng_new(seed), count, s.width, s.height,
                                       s.noise_scale, s.height_intensity), count)

SetNoiseParams(noise_scale, height_intensity) ==
    /\ sim' = set_noise_params(sim, noise_scale, height_intensity)
    /\ reconfigured' = reconfigured + 1
    /\ ret' = Returned("set_noise_params", 0)
    /\ UNCHANGED <<frames, triggers, moves, integrated, grid, placed>>

Resize(new_width, new_height) ==
    /\ sim' = resize(sim, new_width, new_height)
    /\ reconfigured' = reconfigured + 1
    /\ ret' = Asked("resize", [new_width |-> new_width, new_height |-> new_height])
    /\ UNCHANGED <<frames, triggers, moves, integrated, grid, placed>>

SetPointCount(count, seed) ==
    /\ sim' = set_point_count(sim, count, seed)
    /\ reconfigured' = reconfigured + 1
    /\ ret' = Asked("set_point_count", [count |-> count, seed |-> seed])
    /\ UNCHANGED <<frames, triggers, moves, integrated, grid, placed>>

GetPointCount ==
    /\ ret' = Returned("get_point_count", get_point_count(sim))
    /\ UNCHANGED <<sim, frames, triggers, moves, integrated, grid, placed, reconfigured>>

GetStrokeVertexCount ==
    /\ ret' = Returned("get_stroke_vertex_count", get_stroke_vertex_count(sim))
    /\ UNCHANGED <<sim, frames, triggers, moves, integrated, grid, placed, reconfigured>>

-----------------------------------------------------------------------------
(* SpecConfigure: reconfiguration with in-range, out-of-range and NaN arguments *)

MaxReconfigured == 2
MaxFramesConfigure == 1
\* the per-particle loops of resize, set_noise_params and update_points are
\* explored on collections of at most this many particles
MaxLoopPoints == 6

\* requested sizes: NaN, negative, zero, in range, above the maximum
ConfigureSizes == {<<NaN, F(100001)>>, <<0 - F(5), F(20)>>, <<F(20), 0>>, <<F(100001), F(10)>>, <<F(5), F(5)>>}
\* requested counts and seeds: a count below the minimum, fewer and more
\* particles than constructed, a count above the maximum; the seed of the
\* construction and another one
ConfigureCounts == {<<0, 7>>, <<3, 42>>, <<5, 7>>, <<5, 42>>, <<MAX_POINT_COUNT + 1, 7>>}
\* requested noise parameters: NaN, below the minimum and above the maximum,
\* above the maximum and below the minimum, in range
ConfigureNoise == {<<NaN, NaN>>, <<0, F(3)>>, <<2 * ONE * ONE, 0 - ONE>>, <<50, ONE>>}

\* the static height and the force kernels square distances of the size of
\* the canvas, which stay within the integers of the model up to this size
HeightFieldLimit == F(100)

HeightFieldComputable == FLe(sim.width, HeightFieldLimit) /\ FLe(sim.height, HeightFieldLimit)

\* resize multiplies every coordinate by the ratio of the sizes; the product
\* stays within the integers of the model for particles inside the canvas
ScalingComputable ==
    \A i \in 1..Len(sim.points) :
        /\ FLe(FAbs(sim.points[i].x), sim.width) /\ FLe(FAbs(sim.points[i].base_x), sim.width)
        /\ FLe(FAbs(sim.points[i].y), sim.height) /\ FLe(FAbs(sim.points[i].base_y), sim.height)

\* constructions <<width, height, count>>: sizes NaN and negative, and in
\* range; counts below the minimum, in range, and above the maximum
ConfigureConstructions ==
    {<<NaN, 0 - F(5), 0>>, <<NaN, 0 - F(5), 4>>, <<F(10), F(10), 0>>, <<F(10), F(10), 4>>,
     <<F(10), F(10), MAX_POINT_COUNT + 1>>}

InitConfigure == \E c \in ConfigureConstructions : Constructed(c[1], c[2], c[3], 42)

NextConfigure ==
    \/ /\ reconfigured < MaxReconfigured
       /\ Len(sim.points) <= MaxLoopPoints
       /\ ScalingComputable
       /\ \E size \in ConfigureSizes : Resize(size[1], size[2])
    \* more than the maximum is asked for of a full collection only
    \/ /\ reconfigured < MaxReconfigured
       /\ HeightFieldComputable
       /\ \E count \in ConfigureCounts :
             /\ count[1] > MAX_POINT_COUNT => Len(sim.points) = MAX_POINT_COUNT
             /\ SetPointCount(count[1], count[2])
    \/ /\ reconfigured < MaxReconfigured
       /\ Len(sim.points) <= MaxLoopPoints
       /\ HeightFieldComputable
       /\ \E noise \in ConfigureNoise : SetNoiseParams(noise[1], noise[2])
    \* frame steps displace the particles before the reconfiguration
    \/ /\ frames < MaxFramesConfigure
       /\ reconfigured = 0
       /\ Len(sim.points) <= MaxLoopPoints
       /\ UpdatePoints(ONE, ONE)
    \/ /\ ret.op # "get_point_count"
       /\ GetPointCount
    \* output buffers and effects, set up straight after construction
    \/ /\ ret.op = "new"
       /\ Len(sim.points) <= MaxLoopPoints
       /\ \/ Triangulate
          \/ SetGravityWell(F(5), F(5), TRUE, FALSE)
          \/ TriggerShockwave(F(5), F(5), F(100))

SpecConfigure == InitConfigure /\ [][NextConfigure]_vars

\* C11: after construction and after any sequence of operations the particle
\* count lies in [3, 10000] and the width and the height lie in [1, 100000]:
\* new, set_point_count and resize clamp arguments outside these ranges.
C11_CountAndDimensionsInRange ==
    /\ MIN_POINT_COUNT <= Len(sim.points)
    /\ Len(sim.points) <= MAX_POINT_COUNT
    /\ FGe(sim.width, F(1)) /\ FLe(sim.width, F(100000))
    /\ FGe(sim.height, F(1)) /\ FLe(sim.height, F(100000))

\* new was asked for 0 particles and resize for a NaN width and a height above
\* the maximum
C11_Witness ==
    /\ ret.op = "resize"
    /\ Len(sim.points) = MIN_POINT_COUNT
    /\ sim.width = F(1)
    /\ sim.height = F(100000)

-----------------------------------------------------------------------------
(* SpecWell: the gravity well under set, move and frame steps *)

MaxFramesWell == 2

\* requested positions: inside the canvas, outside it, NaN
WellPositions == {<<F(5), F(5)>>, <<0 - F(3), F(40)>>, <<NaN, F(2)>>}
WellMoves == {<<F(2), F(7)>>, <<F(5), NaN>>}

InitWell == Constructed(F(10), F(10), 3, 42)

NextWell ==
    \/ \E pos \in WellPositions, active \in BOOLEAN, attract \in BOOLEAN :
          SetGravityWell(pos[1], pos[2], active, attract)
    \/ \E pos \in WellMoves : UpdateGravityWellPosition(pos[1], pos[2])
    \/ /\ frames < MaxFramesWell
       /\ UpdatePoints(ONE, ONE)

SpecWell == InitWell /\ [][NextWell]_vars

\* C12: there is at most one gravity well.  A set_gravity_well call leaves a
\* well exactly when its active flag is true, with strength +3.0 (attract) or
\* -5.0 (repel) and the position of the call; update_gravity_well_position
\* moves an existing well to the position of the call, never creates a well
\* and never changes the strength; no other call touches the well.  By
\* induction over the calls, the well is present iff the most recent
\* set_gravity_well was active, with that call's strength and the position of
\* the most recent of the two calls.
C12_GravityWellFollowsCalls ==
    [][/\ Len(sim'.gravity_well) <= 1
       /\ ret'.op = "set_gravity_well" =>
              sim'.gravity_well =
                  IF ret'.args.active
                  THEN <<[x |-> ret'.args.x, y |-> ret'.args.y,
                          strength |-> IF ret'.args.attract THEN F(3) ELSE 0 - F(5)]>>
                  ELSE <<>>
       /\ ret'.op = "update_gravity_well_position" =>
              sim'.gravity_well =
                  IF sim.gravity_well = <<>> THEN <<>>
                  ELSE <<[x |-> ret'.args.x, y |-> ret'.args.y,
                          strength |-> sim.gravity_well[1].strength]>>
       /\ ret'.op \notin {"set_gravity_well", "update_gravity_well_position"} =>
              sim'.gravity_well = sim.gravity_well]_vars

\* a repelling well, moved by update_gravity_well_position after a frame step
C12_Witness ==
    /\ ret.op = "update_gravity_well_position"
    /\ frames > 0
    /\ sim.gravity_well = <<[x |-> ret.args.x, y |-> ret.args.y, strength |-> 0 - F(5)]>>

\* the particles a generator seeded with seed yields on the canvas and noise
\* parameters of s: a function of these alone
SeededPoints(s, seed, n) ==
    fresh_points(Rng_new(seed), n, s.width, s.height, s.noise_scale, s.height_intensity)

\* C13: after set_point_count(n, seed) the particle count, as get_point_count
\* returns it, is n clamped to [3, 10000]; the first min(old, new) particles
\* are unchanged in every field; the generator is re-seeded with seed on
\* every call, so the appended particles are the ones a generator fresh from
\* seed yields on the current dimensions and noise parameters.
C13_SetPointCount ==
    [][/\ ret'.op = "set_point_count" =>
              LET n == ret'.args.count
                  new == IF n < 3 THEN 3 ELSE IF n > 10000 THEN 10000 ELSE n
                  old == Len(sim.points)
                  kept == IF old < new THEN old ELSE new
                  drawn == SeededPoints(sim, ret'.args.seed, new - old)
              IN  /\ Len(sim'.points) = new
                  /\ get_point_count(sim') = new
                  /\ \A i \in 1..kept : sim'.points[i] = sim.points[i]
                  /\ [points |-> SubSeq(sim'.points, old + 1, new), rng |-> sim'.rng] = drawn
       /\ ret'.op = "get_point_count" => ret'.value = Len(sim.points)]_vars

\* a call that appended two particles to a simulation whose generator had
\* been advanced by the construction
C13_Witness ==
    /\ ret.op = "set_point_count"
    /\ ret.args.count = 5
    /\ Len(sim.points) = 5
    /\ sim.points[4].dx = 0 /\ sim.points[5].dx = 0
    /\ sim.points[1].dx # 0

\* got is the requested size v clamped to [1, 100000]
ClampedSize(v, got) ==
    /\ FGe(got, F(1)) /\ FLe(got, F(100000))
    /\ FLt(v, F(1)) => got = F(1)
    /\ FGt(v, F(100000)) => got = F(100000)
    /\ (FGe(v, F(1)) /\ FLe(v, F(100000))) => got = v

\* C14: resize(w, h) clamps both arguments to [1, 100000], multiplies every
\* particle's x and base_x by w'/old width and its y and base_y by h'/old
\* height, and leaves vx, vy, dx, dy, z, the particle count, the effects and
\* the output buffers unchanged.
C14_ResizeScalesPositions ==
    [][ret'.op = "resize" =>
          LET scale_x == FDiv(sim'.width, sim.width)
              scale_y == FDiv(sim'.height, sim.height)
          IN  /\ ClampedSize(ret'.args.new_width, sim'.width)
              /\ ClampedSize(ret'.args.new_height, sim'.height)
              /\ Len(sim'.points) = Len(sim.points)
              /\ \A i \in 1..Len(sim.points) :
                    LET p == sim.points[i]
                        q == sim'.points[i]
                    IN  /\ q.x = FMul(p.x, scale_x) /\ q.base_x = FMul(p.base_x, scale_x)
                        /\ q.y = FMul(p.y, scale_y) /\ q.base_y = FMul(p.base_y, scale_y)
                        /\ q.vx = p.vx /\ q.vy = p.vy /\ q.dx = p.dx /\ q.dy = p.dy
                        /\ q.z = p.z
              /\ [sim' EXCEPT !.points = sim.points, !.width = sim.width,
                               !.height = sim.height] = sim]_vars

\* a resize of displaced particles with filled output buffers, to a clamped
\* height
C14_Witness ==
    /\ ret.op = "resize"
    /\ sim.triangle_vertices # <<>>
    /\ sim.height = F(100000)
    /\ sim.points[1].dx # 0

-----------------------------------------------------------------------------
(* Claims on Spec: tick against the three calls it stands for *)

\* C16: tick(dt, speed, mx, my, inBounds, r, s, mode) leaves the simulation
\* (particles, pointer state, effects, buffers) in exactly the state produced
\* by set_mouse_state(mx, my, inBounds, r, s, mode); update_points(dt, speed);
\* triangulate() in that order, and returns the value triangulate returns.
C16_TickIsThreeCalls ==
    [][ret'.op = "tick" =>
          LET a == ret'.args
              pointed == set_mouse_state(sim, a.mouse_x, a.mouse_y, a.mouse_in_canvas,
                                         a.mouse_radius, a.mouse_strength, a.mouse_mode)
              stepped == update_points(pointed, a.delta_time, a.speed)
              out == triangulate(stepped)
          IN  [sim |-> sim', count |-> ret'.value] = out]_vars

\* a tick with the pointer inside the canvas and a gravity well present, on
\* particles that earlier frames have moved
C16_Witness ==
    /\ ret.op = "tick"
    /\ ret.args.mouse_in_canvas
    /\ sim.gravity_well # <<>>
    /\ frames > 1
    /\ ret.value > 0
    /\ sim.mouse_mode = "Swirl"

-----------------------------------------------------------------------------
(* SpecPointer: pointer updates with recognised and unrecognised mode codes *)

MaxMovesPointer == 2
MaxFramesPointer == 2

\* mode codes: the three recognised ones, small and large unrecognised ones
ModeCodes == {0, 1, 2, 3, 255, 2 ^ 30}
PointerPositions == {<<F(5), F(5)>>, <<F(2), F(7)>>}

InitPointer == Constructed(F(10), F(10), 3, 42)

NextPointer ==
    \/ /\ moves < MaxMovesPointer
       /\ \E pos \in PointerPositions, in_canvas \in BOOLEAN, mode \in ModeCodes :
             SetMouseState(pos[1], pos[2], in_canvas, F(4), F(80), mode)
    \/ /\ moves < MaxMovesPointer
       /\ frames < MaxFramesPointer
       /\ \E mode \in ModeCodes : Tick(2, ONE, F(5), F(5), TRUE, F(4), F(80), mode)
    \/ /\ frames < MaxFramesPointer
       /\ UpdatePoints(2, ONE)

SpecPointer == InitPointer /\ [][NextPointer]_vars

\* C17: a pointer update (set_mouse_state or tick) maps mode code 1 to Pull,
\* 2 to Swirl, and every other code (0 and all unrecognised values) to Push.
C17_ModeCodeMapping ==
    ret.op \in {"set_mouse_state", "tick"} =>
        /\ ret.args.mouse_mode = 1 => sim.mouse_mode = "Pull"
        /\ ret.args.mouse_mode = 2 => sim.mouse_mode = "Swirl"
        /\ ret.args.mouse_mode \notin {1, 2} => sim.mouse_mode = "Push"

\* a tick with an unrecognised code, after a pointer update that had set
\* another mode
C17_Witness ==
    /\ ret.op = "tick"
    /\ ret.args.mouse_mode \notin {0, 1, 2}
    /\ sim.mouse_mode = "Push"
    /\ moves > 1

\* C22: every pointer update (set_mouse_state or tick) sets the previous
\* position to the former current position, in bounds or not; in bounds each
\* velocity component becomes 0.4 * (new position - previous position) +
\* 0.6 * (old velocity); out of bounds each velocity component is multiplied
\* by 0.9 and the change of position is not used.
C22_PointerUpdate ==
    [][ret'.op \in {"set_mouse_state", "tick"} =>
          LET x == ret'.args.mouse_x
              y == ret'.args.mouse_y
          IN  /\ sim'.prev_mouse_x = sim.mouse_x
              /\ sim'.prev_mouse_y = sim.mouse_y
              /\ sim'.mouse_x = x
              /\ sim'.mouse_y = y
              /\ ret'.args.mouse_in_canvas =>
                     /\ sim'.mouse_vx = FAdd(FMul(FSub(x, sim'.prev_mouse_x), 40),
                                             FMul(sim.mouse_vx, 60))
                     /\ sim'.mouse_vy = FAdd(FMul(FSub(y, sim'.prev_mouse_y), 40),
                                             FMul(sim.mouse_vy, 60))
              /\ ~ret'.args.mouse_in_canvas =>
                     /\ sim'.mouse_vx = FMul(sim.mouse_vx, 90)
                     /\ sim'.mouse_vy = FMul(sim.mouse_vy, 90)]_vars

\* C22 witness: an out-of-bounds update that moved the pointer, after an
\* in-bounds update had given it a velocity
C22_Witness ==
    /\ ret.op = "set_mouse_state"
    /\ ~ret.args.mouse_in_canvas
    /\ moves > 1
    /\ sim.prev_mouse_x # 0
    /\ sim.mouse_x # sim.prev_mouse_x
    /\ sim.mouse_vx # 0

-----------------------------------------------------------------------------
(* SpecRange: frame steps with a gravity well near to and far from the particles *)

MaxFramesRange == 2

\* well positions: inside the canvas, 500 units away, more than 1000 units away
RangePositions == {<<F(5), F(5)>>, <<F(500), F(5)>>, <<F(1200), F(5)>>, <<0 - F(1100), F(900)>>}

InitRange == Constructed(F(10), F(10), 3, 42)

NextRange ==
    \/ \E pos \in RangePositions, active \in BOOLEAN, attract \in BOOLEAN :
          SetGravityWell(pos[1], pos[2], active, attract)
    \/ \E pos \in RangePositions : UpdateGravityWellPosition(pos[1], pos[2])
    \/ /\ frames < MaxFramesRange
       /\ UpdatePoints(ONE, ONE)

SpecRange == InitRange /\ [][NextRange]_vars

\* the distance from p to the well exceeds the maximum range
BeyondMaxRange(p, well) ==
    LET dx == FSub(well.x, p.x)
        dy == FSub(well.y, p.y)
    IN  FGt(FAdd(FMul(dx, dx), FMul(dy, dy)),
            FMul(GRAVITY_WELL_MAX_RANGE, GRAVITY_WELL_MAX_RANGE))

\* C19 (as claimed): during a frame step with an active gravity well, a
\* particle whose distance from the well exceeds the maximum range (1000) is
\* skipped: the well does not change its dx or dy.  (SpecRange has no pointer
\* and no shockwave, so after the integration loop only the well acts.)
C19_BeyondMaxRangeSkipped ==
    (ret.op = "update_points" /\ sim.gravity_well # <<>>) =>
        \A i \in 1..Len(sim.points) :
            BeyondMaxRange(integrated[i], sim.gravity_well[1]) =>
                /\ sim.points[i].dx = integrated[i].dx
                /\ sim.points[i].dy = integrated[i].dy

-----------------------------------------------------------------------------
(* SpecForces: frame steps with the pointer, a gravity well and a shockwave *)

MaxFramesForces == 2
MaxMovesForces == 1
MaxTriggersForces == 1

InitForces == Constructed(F(10), F(10), 3, 42)

NextForces ==
    \/ /\ frames < MaxFramesForces
       /\ UpdatePoints(2, ONE)
    \/ /\ moves < MaxMovesForces
       /\ \E mode \in {0, 1, 2} : SetMouseState(F(5), F(5), TRUE, F(4), F(80), mode)
    \/ \E active \in BOOLEAN, attract \in BOOLEAN : SetGravityWell(F(5), F(5), active, attract)
    \/ /\ triggers < MaxTriggersForces
       /\ TriggerShockwave(F(5), F(5), F(100))

SpecForces == InitForces /\ [][NextForces]_vars

\* C20: the pointer, gravity-well and shockwave force kernels change only dx
\* and dy: every particle's x, y, base_x, base_y, vx, vy and z are, at the end
\* of a frame step, what the integration loop left before the kernels ran.
C20_KernelsChangeOnlyDisplacement ==
    ret.op = "update_points" =>
        /\ Len(sim.points) = Len(integrated)
        /\ \A i \in 1..Len(sim.points) :
              [sim.points[i] EXCEPT !.dx = 0, !.dy = 0] = [integrated[i] EXCEPT !.dx = 0, !.dy = 0]

\* a frame step in which the pointer, a gravity well and a shockwave were
\* present and the kernels changed every particle's dx
C20_Witness ==
    /\ ret.op = "update_points"
    /\ sim.mouse_in_canvas
    /\ sim.gravity_well # <<>>
    /\ sim.shockwaves # <<>>
    /\ \A i \in 1..Len(sim.points) : sim.points[i].dx # integrated[i].dx

-----------------------------------------------------------------------------
(* SpecHost: every mutating call of the host interface, in any order *)

MaxCallsHost == 2

\* the calls counted by the history variables (a tick counts as a frame step
\* and a pointer update)
HostCalls == frames + moves + triggers + reconfigured

HostSizes == {<<F(5), F(5)>>, <<F(20), F(10)>>}
\* fewer and more particles than constructed
HostCounts == {3, 5}
HostNoise == {<<50, ONE>>, <<2 * ONE, F(2)>>}

InitHost == Constructed(F(10), F(10), 4, 42)

NextHost ==
    \/ /\ HostCalls < MaxCallsHost
       /\ UpdatePoints(ONE, ONE)
    \/ /\ HostCalls + 1 < MaxCallsHost
       /\ Tick(2, ONE, F(5), F(5), TRUE, F(4), F(80), 0)
    \/ Triangulate
    \/ /\ HostCalls < MaxCallsHost
       /\ \E size \in HostSizes : Resize(size[1], size[2])
    \/ /\ HostCalls < MaxCallsHost
       /\ \E count \in HostCounts : SetPointCount(count, 7)
    \/ /\ HostCalls < MaxCallsHost
       /\ \E noise \in HostNoise : SetNoiseParams(noise[1], noise[2])
    \/ /\ HostCalls < MaxCallsHost
       /\ SetMouseState(F(2), F(7), TRUE, F(4), F(80), 1)
    \/ /\ sim.damping = DEFAULT_DAMPING
       /\ SetPhysicsParams(10, 90, 50)
    \/ /\ HostCalls < MaxCallsHost
       /\ TriggerShockwave(F(5), F(5), F(100))
    \/ /\ sim.gravity_well = <<>>
       /\ SetGravityWell(F(5), F(5), TRUE, TRUE)
    \/ /\ sim.gravity_well # <<>>
       /\ sim.gravity_well[1].x = F(5)
       /\ \/ SetGravityWell(F(5), F(5), FALSE, TRUE)
          \/ UpdateGravityWellPosition(F(2), F(7))

SpecHost == InitHost /\ [][NextHost]_vars

\* the particles held before and after a step: those set_point_count did not
\* cut off, and all of them for every other call
Surviving == 1..(IF Len(sim'.points) < Len(sim.points) THEN Len(sim'.points) ELSE Len(sim.points))

\* C23: a particle's static height z is changed only by set_noise_params:
\* update_points, tick, triangulate, resize, set_mouse_state,
\* set_physics_params, trigger_shockwave, the gravity-well calls and
\* set_point_count (for the particles it keeps) leave every existing
\* particle's z as it was; and no call at all changes an existing particle's
\* vx or vy.
C23_HeightAndDriftVelocityFixed ==
    [][/\ ret'.op # "set_noise_params" =>
              \A i \in Surviving : sim'.points[i].z = sim.points[i].z
       /\ \A i \in Surviving :
              /\ sim'.points[i].vx = sim.points[i].vx
              /\ sim'.points[i].vy = sim.points[i].vy]_vars

\* C23 witness: a resize to twice the width, after a frame step, of particles
\* with a height and a drift velocity
C23_Witness ==
    /\ ret.op = "resize"
    /\ sim.width = F(20)
    /\ frames > 0
    /\ \A i \in 1..Len(sim.points) :
           sim.points[i].z # 0 /\ sim.points[i].vx # 0 /\ sim.points[i].vy # 0

Buffers(s) == <<s.triangle_vertices, s.stroke_vertices, s.point_vertices>>

\* C28: the three output buffers are empty, and get_triangle_count() is 0,
\* after construction, and every call other than triangulate and tick leaves
\* them unchanged: between triangulations the buffers and
\* get_triangle_count() describe the last triangulation, even when
\* get_point_count() has changed since.
C28_BuffersChangeOnlyInTriangulate ==
    /\ (Buffers(sim) = <<<<>>, <<>>, <<>>>> /\ get_triangle_count(sim) = 0)
    /\ [][ret'.op \notin {"triangulate", "tick"} =>
              /\ Buffers(sim') = Buffers(sim)
              /\ get_triangle_count(sim') = get_triangle_count(sim)]_vars

\* C28 witness: set_point_count has changed the number of particles after a
\* triangulation, whose buffers are still held
C28_Witness ==
    /\ ret.op = "set_point_count"
    /\ sim.triangle_vertices # <<>>
    /\ Len(sim.point_vertices) # 2 * get_point_count(sim)
    /\ get_triangle_count(sim) > 0

\* s with its three output buffers empty
Unbuilt(s) == [s EXCEPT !.triangle_vertices = <<>>, !.stroke_vertices = <<>>, !.point_vertices = <<>>]

\* C24: triangulate rebuilds the three buffers from the current particles and
\* dimensions only: buffers and returned count are what they would be had
\* the buffers been empty before the call, whatever they held; and a
\* triangulate that directly follows a triangulation (triangulate or tick)
\* leaves the same buffers and returns the same count.
C24_TriangulateRebuildsInFull ==
    [][ret'.op = "triangulate" =>
          /\ [sim |-> sim', count |-> ret'.value] = triangulate(Unbuilt(sim))
          /\ ret.op \in {"triangulate", "tick"} =>
                 /\ Buffers(sim') = Buffers(sim)
                 /\ ret'.value = ret.value]_vars

\* C24 witness: a triangulate straight after a tick, which had filled the
\* buffers (only tick puts the pointer at 5, 5, and it uses up both calls)
C24_Witness ==
    /\ ret.op = "triangulate"
    /\ sim.mouse_x = F(5)
    /\ HostCalls = 2
    /\ ret.value > 0
    /\ sim.triangle_vertices # <<>>

-----------------------------------------------------------------------------
(* SpecGhosts: triangulation of particles that drift toward edges and       *)
(* corners, and the stroke count read after it                              *)

MaxFramesGhosts == 2

GhostSeeds == {7, 42}
GhostSizes == {<<F(10), F(10)>>, <<F(20), F(8)>>}
\* a NaN step leaves every particle without a position
GhostDeltaTimes == {NaN, ONE, F(5)}

InitGhosts ==
    \E seed \in GhostSeeds, size \in GhostSizes : Constructed(size[1], size[2], 4, seed)

NextGhosts ==
    \/ /\ frames < MaxFramesGhosts
       /\ \E dt \in GhostDeltaTimes : UpdatePoints(dt, F(3))
    \/ Triangulate
    \/ /\ JustTriangulated
       /\ GetStrokeVertexCount

SpecGhosts == InitGhosts /\ [][NextGhosts]_vars

When(condition, ghost) == IF condition THEN {ghost} ELSE {}

\* the ghosts the claim gives particle p on a canvas of the given size
ClaimedGhosts(p, width, height) ==
    LET left == FLt(p.x, FMul(15, width))
        right == FGt(p.x, FSub(width, FMul(15, width)))
        top == FLt(p.y, FMul(15, height))
        bottom == FGt(p.y, FSub(height, FMul(15, height)))
    IN  When(left, <<p.x + width, p.y, p.z>>)
        \cup When(right, <<p.x - width, p.y, p.z>>)
        \cup When(top, <<p.x, p.y + height, p.z>>)
        \cup When(bottom, <<p.x, p.y - height, p.z>>)
        \cup When(left /\ top, <<p.x + width, p.y + height, p.z>>)
        \cup When(left /\ bottom, <<p.x + width, p.y - height, p.z>>)
        \cup When(right /\ top, <<p.x - width, p.y + height, p.z>>)
        \cup When(right /\ bottom, <<p.x - width, p.y - height, p.z>>)

Elements(seq) == {seq[k] : k \in 1..Len(seq)}

\* g is a copy of p moved along both axes
IsCornerGhost(g, p) == g[1] # p.x /\ g[2] # p.y

\* C25: for every particle, ghost generation emits one copy moved by +width
\* if x < 0.15 width, by -width if x > width - 0.15 width, by +height if
\* y < 0.15 height, by -height if y > height - 0.15 height, and one copy moved
\* along both axes for each pair of a horizontal and a vertical condition that
\* hold together; every ghost carries the particle's z; a particle that meets
\* no condition has no ghost; and a particle with a corner ghost also has the
\* two edge ghosts of that corner.
C25_GhostsAsClaimed ==
    JustTriangulated =>
        /\ \A i \in 1..Len(sim.points) :
               LET p == sim.points[i]
                   ghosts == ghosts_of(p, sim.width, sim.height)
               IN  /\ Elements(ghosts) = ClaimedGhosts(p, sim.width, sim.height)
                   /\ Len(ghosts) = Cardinality(ClaimedGhosts(p, sim.width, sim.height))
                   /\ \A k \in 1..Len(ghosts) : ghosts[k][3] = p.z
                   /\ \A k \in 1..Len(ghosts) :
                          IsCornerGhost(ghosts[k], p) =>
                              /\ <<ghosts[k][1], p.y, p.z>> \in Elements(ghosts)
                              /\ <<p.x, ghosts[k][2], p.z>> \in Elements(ghosts)
        /\ Elements(generate_ghost_points(sim)) =
               UNION {ClaimedGhosts(sim.points[i], sim.width, sim.height) :
                         i \in 1..Len(sim.points)}

\* C25 witness: the triangulated particles include one near a corner, with its
\* three ghosts, one near a single edge and one near none
C25_Witness ==
    /\ JustTriangulated
    /\ \E i \in 1..Len(sim.points) : Len(ghosts_of(sim.points[i], sim.width, sim.height)) = 3
    /\ \E i \in 1..Len(sim.points) : Len(ghosts_of(sim.points[i], sim.width, sim.height)) = 1
    /\ \E i \in 1..Len(sim.points) : Len(ghosts_of(sim.points[i], sim.width, sim.height)) = 0

\* C26 (as claimed): get_stroke_vertex_count returns the number of stroke line
\* segments in the stroke buffer, a segment being one triangle edge stored
\* as 4 floats [x1, y1, x2, y2]: after every triangulate it is
\* 3 x get_triangle_count().
C26_StrokeCountIsSegments ==
    ret.op = "get_stroke_vertex_count" =>
        /\ 4 * ret.value = Len(sim.stroke_vertices)
        /\ ret.value = 3 * get_triangle_count(sim)

-----------------------------------------------------------------------------
(* Grid-based force kernels (physics.rs): the pointer and shockwave kernels *)
(* over the particles a SpatialGrid query yields.  They work on a slice of  *)
(* particles handed in by the caller; particle k of the slice is points[k+1] *)

MouseState_speed(mouse) == FSqrt(FAdd(FMul(mouse.vx, mouse.vx), FMul(mouse.vy, mouse.vy)))

\* the body of the loop of physics::apply_mouse_influence for one particle
physics_mouse_force_on(point, mouse, velocity_influence) ==
    LET radius == mouse.radius
        radius_sq == FMul(radius, radius)
        strength == mouse.strength
        velocity_boost == FAdd(ONE, FMul(MouseState_speed(mouse), velocity_influence))
        dx == FSub(point.x, mouse.x)
        dy == FSub(point.y, mouse.y)
        dist_sq == FAdd(FMul(dx, dx), FMul(dy, dy))
    IN  IF FGe(dist_sq, radius_sq) \/ FLt(dist_sq, MIN_DIST_SQ) THEN point
        ELSE LET dist == FSqrt(dist_sq)
                 t == FSub(ONE, FDiv(dist, radius))
                 falloff == FMul(FMul(t, t), FSub(F(3), FMul(F(2), t)))
                 push == FMul(FMul(FMul(strength, falloff), velocity_boost), 8)
                 inv_dist == FDiv(ONE, dist)
                 nx == FMul(dx, inv_dist)
                 ny == FMul(dy, inv_dist)
                 tangent_x == FMul(FNeg(dy), inv_dist)
                 tangent_y == FMul(dx, inv_dist)
             IN  CASE mouse.mode = "Push" ->
                        [point EXCEPT !.dx = FAdd(point.dx, FMul(nx, push)),
                                      !.dy = FAdd(point.dy, FMul(ny, push))]
                   [] mouse.mode = "Pull" ->
                        [point EXCEPT !.dx = FSub(point.dx, FMul(FMul(nx, push), 50)),
                                      !.dy = FSub(point.dy, FMul(FMul(ny, push), 50))]
                   [] mouse.mode = "Swirl" ->
                        [point EXCEPT
                            !.dx = FAdd(FAdd(point.dx, FMul(FMul(tangent_x, push), 70)),
                                        FMul(FMul(nx, push), 20)),
                            !.dy = FAdd(FAdd(point.dy, FMul(FMul(tangent_y, push), 70)),
                                        FMul(FMul(ny, push), 20))]

RECURSIVE physics_mouse_loop(_, _, _, _, _)
\* the loop over the indices the query yielded, from the k-th on
physics_mouse_loop(points, nearby, k, mouse, velocity_influence) ==
    IF k > Len(nearby) THEN points
    ELSE physics_mouse_loop(
             [points EXCEPT ![nearby[k] + 1] =
                 physics_mouse_force_on(@, mouse, velocity_influence)],
             nearby, k + 1, mouse, velocity_influence)

physics_apply_mouse_influence(points, mouse, velocity_influence, g) ==
    IF ~mouse.in_canvas THEN points
    ELSE physics_mouse_loop(points,
                            SpatialGrid_query_radius(g, mouse.x, mouse.y, mouse.radius),
                            1, mouse, velocity_influence)

\* the body of the loop of physics::apply_shockwave for one particle
physics_shockwave_force_on(point, wave) ==
    LET min_radius == FMax(FSub(wave.radius, SHOCKWAVE_WAVE_WIDTH), 0)
        max_radius == FAdd(wave.radius, SHOCKWAVE_WAVE_WIDTH)
        min_radius_sq == FMul(min_radius, min_radius)
        max_radius_sq == FMul(max_radius, max_radius)
        dx == FSub(point.x, wave.x)
        dy == FSub(point.y, wave.y)
        dist_sq == FAdd(FMul(dx, dx), FMul(dy, dy))
    IN  IF FLt(dist_sq, min_radius_sq) \/ FGt(dist_sq, max_radius_sq)
           \/ FLt(dist_sq, MIN_DIST_SQ)
        THEN point
        ELSE LET dist == FSqrt(dist_sq)
                 ring_dist == FAbs(FSub(dist, wave.radius))
             IN  IF FLt(ring_dist, SHOCKWAVE_WAVE_WIDTH)
                 THEN LET falloff == FSub(ONE, FDiv(ring_dist, SHOCKWAVE_WAVE_WIDTH))
                          push == FMul(FMul(wave.strength, falloff), 15)
                          inv_dist == FDiv(ONE, dist)
                          nx == FMul(dx, inv_dist)
                          ny == FMul(dy, inv_dist)
                      IN  [point EXCEPT !.dx = FAdd(point.dx, FMul(nx, push)),
                                        !.dy = FAdd(point.dy, FMul(ny, push))]
                 ELSE point

RECURSIVE physics_shockwave_loop(_, _, _, _)
physics_shockwave_loop(points, nearby, k, wave) ==
    IF k > Len(nearby) THEN points
    ELSE physics_shockwave_loop(
             [points EXCEPT ![nearby[k] + 1] = physics_shockwave_force_on(@, wave)],
             nearby, k + 1, wave)

physics_apply_shockwave(points, wave, g) ==
    physics_shockwave_loop(points,
                           SpatialGrid_query_radius(g, wave.x, wave.y,
                                                    FAdd(wave.radius, SHOCKWAVE_WAVE_WIDTH)),
                           1, wave)

\* the pointer fields of the simulation, as the MouseState the kernel takes
MouseState_of(s) ==
    [x |-> s.mouse_x, y |-> s.mouse_y, prev_x |-> s.prev_mouse_x, prev_y |-> s.prev_mouse_y,
     vx |-> s.mouse_vx, vy |-> s.mouse_vy, in_canvas |-> s.mouse_in_canvas,
     radius |-> s.mouse_radius, strength |-> s.mouse_strength, mode |-> s.mouse_mode]

Positions(s) == [i \in 1..Len(s.points) |-> <<s.points[i].x, s.points[i].y>>]

RECURSIVE fill_grid(_, _, _)
\* insert(i, x, y) for the particles from the k-th on, particle i being points[i + 1]
fill_grid(g, points, k) ==
    IF k > Len(points) THEN g
    ELSE fill_grid(SpatialGrid_insert(g, k - 1, points[k].x, points[k].y), points, k + 1)

\* a grid over the canvas is built and filled from the particles' positions
FillGrid(cell_size) ==
    /\ grid' = fill_grid(SpatialGrid_new(sim.width, sim.height, cell_size), sim.points, 1)
    /\ placed' = Positions(sim)
    /\ ret' = Asked("fill_grid", [cell_size |-> cell_size])
    /\ UNCHANGED <<sim, frames, triggers, moves, integrated, reconfigured>>

\* the grid holds the particles where they are now, all of them on the canvas
GridIsCurrent ==
    /\ grid # <<>>
    /\ placed = Positions(sim)
    /\ AllWithinBounds(sim)

\* the kernels run on a copy of the simulation's particles, which ret keeps
PhysicsApplyMouseInfluence ==
    /\ GridIsCurrent
    /\ ret' = Returned("physics::apply_mouse_influence",
                       physics_apply_mouse_influence(sim.points, MouseState_of(sim),
                                                     sim.velocity_influence, grid))
    /\ UNCHANGED <<sim, frames, triggers, moves, integrated, grid, placed, reconfigured>>

PhysicsApplyShockwave(k) ==
    /\ GridIsCurrent
    /\ ret' = Returned("physics::apply_shockwave",
                       [wave |-> sim.shockwaves[k],
                        points |-> physics_apply_shockwave(sim.points, sim.shockwaves[k], grid)])
    /\ UNCHANGED <<sim, frames, triggers, moves, integrated, grid, placed, reconfigured>>

-----------------------------------------------------------------------------
(* SpecBroad: the grid-based kernels beside the loops of Simulation.  The   *)
(* pointer and the waves are centred so that particles lie inside, outside  *)
(* and exactly at the radius, and the cell size so that a cell boundary     *)
(* passes through a particle or lies just beyond it.                        *)

MaxCallsBroad == 2

BroadSeeds == {7, 42}
BroadRadii == {F(20), F(30)}
\* how far a cell boundary lies beyond a particle
BoundaryGap == 40
\* distance of a wave's centre from a particle: the reach of a wave after one
\* frame, SHOCKWAVE_SPEED + SHOCKWAVE_WAVE_WIDTH, that less the gap, and less
BroadWaveOffsets ==
    {FAdd(SHOCKWAVE_SPEED, SHOCKWAVE_WAVE_WIDTH),
     FSub(FAdd(SHOCKWAVE_SPEED, SHOCKWAVE_WAVE_WIDTH), BoundaryGap), F(30)}
BroadCellSizes == {F(50), F(80)}
MinParticleCellSize == F(50)

\* cell sizes for which a particle lies on a cell boundary or just below one
ParticleCellSizes ==
    {sim.points[i].x : i \in 1..Len(sim.points)}
        \cup {FAdd(sim.points[i].x, BoundaryGap) : i \in 1..Len(sim.points)}

InitBroad == \E seed \in BroadSeeds : Constructed(F(200), F(200), 4, seed)

NextBroad ==
    \/ /\ HostCalls < MaxCallsBroad
       /\ \E delta_time \in {0, ONE} : UpdatePoints(delta_time, ONE)
    \/ /\ HostCalls < MaxCallsBroad
       /\ \E radius \in BroadRadii, mode \in {0, 1, 2} :
              \E offset \in {radius, F(5)} :
                  SetMouseState(FSub(sim.points[2].x, offset), sim.points[2].y, TRUE,
                                radius, F(80), mode)
    \/ /\ HostCalls < MaxCallsBroad
       /\ \E offset \in BroadWaveOffsets :
              TriggerShockwave(FSub(sim.points[3].x, offset), sim.points[3].y, F(100))
    \/ \E cell_size \in BroadCellSizes \cup ParticleCellSizes :
           /\ FGe(cell_size, MinParticleCellSize)
           /\ FillGrid(cell_size)
    \/ PhysicsApplyMouseInfluence
    \/ \E k \in 1..Len(sim.shockwaves) : PhysicsApplyShockwave(k)

SpecBroad == InitBroad /\ [][NextBroad]_vars

\* C27 (as claimed): with every particle on the canvas and the grid filled from the
\* particles' positions, physics::apply_mouse_influence leaves the particles
\* exactly as the loop of Simulation::apply_mouse_influence does, and
\* physics::apply_shockwave exactly as the loop of
\* Simulation::apply_shockwave_forces does for that wave.
C27_GridKernelsMatchLoops ==
    /\ ret.op = "physics::apply_mouse_influence" =>
           ret.value = apply_mouse_influence(sim).points
    /\ ret.op = "physics::apply_shockwave" =>
           ret.value.points =
               apply_shockwave_forces([sim EXCEPT !.shockwaves = <<ret.value.wave>>]).points

-----------------------------------------------------------------------------
(* SpecGridAny: grids of any size, particles and query centres on, inside   *)
(* and outside the grid                                                     *)

MaxPlacedAny == 2

\* width and height: zero, below one cell, several cells
AnySizes == {<<0, F(4)>>, <<50, 50>>, <<F(4), F(5)>>}
\* cell sizes: below the floor of 1, and not dividing the sizes
AnyCellSizes == {50, F(3)}
\* coordinates: negative, inside the largest grid, beyond every grid
AnyCoordinates == {0 - 150, 150, F(6)}
AnyCentres == {0 - ONE, F(2), F(6)}
AnyRadii == {ONE, F(8)}

InitGridAny ==
    /\ sim = Simulation_new(F(GridWidth), F(GridHeight), 3, 42)
    /\ ret = Returned("new", 0)
    /\ frames = 0
    /\ triggers = 0
    /\ moves = 0
    /\ integrated = <<>>
    /\ \E size \in AnySizes, cell_size \in AnyCellSizes :
           grid = SpatialGrid_new(size[1], size[2], cell_size)
    /\ placed = <<>>
    /\ reconfigured = 0

NextGridAny ==
    \/ /\ Len(placed) < MaxPlacedAny
       /\ \E x \in AnyCoordinates, y \in AnyCoordinates : GridInsert(x, y)
    \/ GridClear
    \/ \E size \in AnySizes, cell_size \in AnyCellSizes : GridResize(size[1], size[2], cell_size)
    \/ \E cx \in AnyCentres, cy \in AnyCentres, radius \in AnyRadii : GridQuery(cx, cy, radius)

SpecGridAny == InitGridAny /\ [][NextGridAny]_vars

\* the number of times index i is held by cell k of grid g
Holds(g, k, i) == Cardinality({n \in 1..Len(g.cells[k]) : g.cells[k][n] = i})

\* C29: the grid has cols * rows cells, with the cell size at least 1 and
\* cols = ceil(width / cell size) and rows = ceil(height / cell size), each at
\* least 1; every inserted index, whatever its coordinates, is held once by
\* exactly one of these cells; query_radius iterates only rows below rows and
\* columns below cols, and yields no index twice; after clear and after resize
\* every cell is empty.
C29_GridStaysInBounds ==
    /\ FGe(grid.cell_size, ONE)
    /\ grid.cols = UMax(CeilDiv(grid.width, grid.cell_size), 1)
    /\ grid.rows = UMax(CeilDiv(grid.height, grid.cell_size), 1)
    /\ Len(grid.cells) = grid.cols * grid.rows
    /\ \A i \in 1..Len(placed) :
           \E k \in 1..(grid.cols * grid.rows) :
               /\ Holds(grid, k, i - 1) = 1
               /\ \A other \in 1..Len(grid.cells) : other # k => Holds(grid, other, i - 1) = 0
    /\ ret.op = "query_radius" =>
           /\ query_radius_ranges(grid, ret.value.cx, ret.value.cy, ret.value.radius).max_col
                  <= grid.cols
           /\ query_radius_ranges(grid, ret.value.cx, ret.value.cy, ret.value.radius).max_row
                  <= grid.rows
           /\ \A j, k \in 1..Len(ret.value.found) :
                  ret.value.found[j] = ret.value.found[k] => j = k
           /\ \A j \in 1..Len(ret.value.found) : ret.value.found[j] \in 0..(Len(placed) - 1)
    /\ ret.op \in {"clear", "resize"} =>
           \A k \in 1..Len(grid.cells) : grid.cells[k] = <<>>

\* a query over a grid of several cells has yielded two particles, one placed
\* at negative coordinates and one beyond the grid on both axes
C29_Witness ==
    /\ ret.op = "query_radius"
    /\ Len(grid.cells) > 1
    /\ Len(ret.value.found) = 2
    /\ \E i \in 1..Len(placed) : placed[i][1] < 0 /\ placed[i][2] < 0
    /\ \E i \in 1..Len(placed) : FGt(placed[i][1], grid.width) /\ FGt(placed[i][2], grid.height)

====
